---------------------------- MODULE Spec2Model ----------------------------
(***************************************************************************)
(* Model of apps/desktop/src-tauri/src/lib.rs: the workspace server        *)
(* registry (start_workspace_server, stop_workspace_server,                *)
(* ServerManager::stop_all, graceful_kill), the startup handshake, and the *)
(* state-file persistence (load_state, save_state).                        *)
(*                                                                         *)
(* Spec       the registry, the handshake and graceful_kill, run by two    *)
(*            concurrent callers against child processes that write, stay  *)
(*            silent or exit as they like.                                 *)
(* SpecKill   graceful_kill alone, from registries holding live servers,   *)
(*            with weak fairness on the thread that runs it.               *)
(* SpecState  load_state and save_state run by concurrent tasks.           *)
(***************************************************************************)
EXTENDS Integers, Sequences, FiniteSets, TLC

VARIABLES
    unix,        \* cfg!(unix): the platform the binary was built for
    ids,         \* the workspace ids the UI passes to the commands
    servers,     \* ServerManager.servers: workspace id -> ServerHandle
    serversLock, \* holder of the parking_lot::Mutex around servers
    proc,        \* the OS child processes spawned so far
    stdout,      \* first line each child has written to its stdout pipe
    reader,      \* the stdout reader thread of each child
    chan,        \* the oneshot channel (tx, rx) of each child
    nextPid,     \* number of children spawned so far, plus one
    calls,       \* number of commands begun so far
    call,        \* each caller's position and locals
    ret,         \* what each caller's last finished command returned
    dirs,        \* directories that exist under the app data dir
    stateFile,   \* contents of state.json (NoFile when absent)
    tmpFile,     \* contents of state.json.tmp
    stateLock,   \* holder of StateLock's tokio::sync::Mutex
    task,        \* each persistence task's position and locals
    out,         \* what each task's last finished command returned
    committed,   \* history: the document of the last save that renamed
    ops,         \* number of persistence commands begun so far
    logs,        \* contents of each transcript file (NoLog when absent)
    pendingW,    \* writes handed to blocking tasks and not yet done
    lcall,       \* position and locals of the transcript command in progress
    lout,        \* what the last finished transcript command returned
    cmds,        \* number of transcript commands begun so far
    supplied,    \* history: the events accepted for each file since it was made
    viaOne,      \* history: the files as one-by-one appends would leave them
    raced        \* history: a write was issued while another was pending

regVars == <<unix, ids, servers, serversLock, proc, stdout, reader, chan, nextPid, calls,
            call, ret>>
stVars == <<stateFile, tmpFile, stateLock, task, out, committed, ops>>
logVars == <<logs, pendingW, lcall, lout, cmds, supplied, viaOne, raced>>
vars == <<regVars, dirs, stVars, logVars>>

-----------------------------------------------------------------------------
(* Bounds of the model.                                                    *)

MaxSpawns == 2
MaxCalls == 3
MaxVersion == 2
MaxRecs == 1
MaxBatch == 3
MaxCmds == 2
MaxShortId == 2

(* Program constants.                                                      *)

PollLimit == 30
MaxIdLen == 256
MaxPort == 65535

Callers == {"c1", "c2"}
None == "none"
Pids == 1..MaxSpawns

-----------------------------------------------------------------------------
(* validate_safe_id: identifiers are sequences of characters.              *)

AsciiAlnum == {"a", "b", "w", "Z", "1", "2"}
NonAsciiAlnum == {"e'"}           \* U+00E9, alphanumeric, two bytes in UTF-8
IsAlphanumeric(c) == c \in AsciiAlnum \cup NonAsciiAlnum
Utf8Len(c) == IF c \in NonAsciiAlnum THEN 2 ELSE 1

(* str::len: the bytes of the UTF-8 encoding, one to four per character.   *)
ByteLen_Chars(id) == Len(id)
ByteLen(id) ==
    LET Of(w) == Cardinality({i \in 1..Len(id) : Utf8Len(id[i]) = w})
    IN Of(1) + 2 * Of(2) + 3 * Of(3) + 4 * Of(4)

validate_safe_id(id) ==
    IF id = <<>> THEN "InvalidInput"
    ELSE IF ByteLen(id) > MaxIdLen THEN "InvalidInput"
    ELSE IF ~ \A i \in 1..Len(id) : IsAlphanumeric(id[i]) \/ id[i] = "-" \/ id[i] = "_"
         THEN "InvalidInput"
    ELSE "Ok"

(* validate_workspace_path: what the path names on disk decides.           *)
PathKinds == {"dir", "file", "missing"}
validate_workspace_path(kind) ==
    IF kind = "missing" THEN "NotFound"
    ELSE IF kind # "dir" THEN "InvalidInput"
    ELSE "Ok"

W1 == <<"w", "1">>
W2 == <<"w", "2">>
BadId == <<".", ".">>

-----------------------------------------------------------------------------
(* The handshake line and ServerListening.                                 *)

(* Each child listens on an ephemeral port of its own; its URL names it.   *)
PortOf(p) == 4000 + p
Url(port) == <<"ws://127.0.0.1", port>>
NoUrl == <<>>
Str(s) == [t |-> "str", s |-> s]
Num(n) == [t |-> "num", n |-> n]

(* A line of text, by what read_line and serde_json make of it: bytes    *)
(* that are not UTF-8, an empty line (end of file), or one JSON object     *)
(* with its members.  NoLine: nothing written so far.                      *)
NoMembers == [k \in {} |-> Str("")]
JsonLine(members) == [kind |-> "json", members |-> members]
Listening(url, port) ==
    JsonLine(("type" :> Str("server_listening")) @@ ("url" :> Str(url))
             @@ ("port" :> Num(port)) @@ ("cwd" :> Str("/ws")))
BadPortLine == Listening(Url(70000), 70000)
BadUtf8Line == [kind |-> "badutf8", members |-> NoMembers]
EmptyLine == [kind |-> "empty", members |-> NoMembers]
NoLine == [kind |-> "nothing", members |-> NoMembers]

(* What a child may write as its first line.                               *)
ChildLines(p) == {Listening(Url(PortOf(p)), PortOf(p)), BadPortLine, BadUtf8Line}

IsStr(v) == v.t = "str"
IsU16(v) == v.t = "num" /\ v.n \in 0..MaxPort

(* serde_json::from_str::<ServerListening>(first_line.trim())              *)
ParseListening(line) ==
    IF /\ line.kind = "json"
       /\ {"type", "url", "port", "cwd"} \subseteq DOMAIN line.members
       /\ IsStr(line.members["type"])
       /\ IsStr(line.members["url"])
       /\ IsU16(line.members["port"])
       /\ IsStr(line.members["cwd"])
    THEN [ok |-> TRUE, url |-> line.members["url"].s]
    ELSE [ok |-> FALSE, url |-> NoUrl]

-----------------------------------------------------------------------------
(* Child processes.  st: unborn, running, exited (a zombie, not yet        *)
(* waited for) or reaped.  ws: the workspace the child was spawned for.    *)
(* term: SIGTERM was delivered to it.  Pid 0 stands for "no child".        *)

NoProc == [st |-> "unborn", ws |-> <<>>, term |-> FALSE]
Running(p) == proc[p].st = "running"

(* Child::try_wait: Ok(None) while the child runs; once it has exited,     *)
(* Ok(Some(status)) (the call reaps it) or an error of the wait syscall.   *)
TryWait(p) == IF Running(p) THEN {"none"} ELSE {"some", "err"}
Reap(pr, p) == IF pr[p].st = "exited" THEN [pr EXCEPT ![p].st = "reaped"] ELSE pr

(* Child::kill followed by Child::wait: SIGKILL cannot be refused; wait    *)
(* returns once the child is gone and reaps it.                            *)
KillAndWait_NoKill(pr, p) == pr
KillAndWait(pr, p) == [pr EXCEPT ![p].st = "reaped"]

(* libc::kill(pid, SIGTERM)                                                *)
SendSigterm(pr, p) == IF pr[p].st = "running" THEN [pr EXCEPT ![p].term = TRUE] ELSE pr

(* The child writes its first stdout line.                                 *)
ChildWriteLine(p, l) ==
    /\ Running(p)
    /\ stdout[p] = NoLine
    /\ stdout' = [stdout EXCEPT ![p] = l]
    /\ UNCHANGED <<unix, ids, servers, serversLock, proc, reader, chan, nextPid, calls, call, ret>>
    /\ UNCHANGED <<dirs, stVars, logVars>>

(* The child exits: on its own, or because it honours a SIGTERM.           *)
ChildExit(p) ==
    /\ Running(p)
    /\ proc' = [proc EXCEPT ![p].st = "exited"]
    /\ UNCHANGED <<unix, ids, servers, serversLock, stdout, reader, chan, nextPid, calls, call, ret>>
    /\ UNCHANGED <<dirs, stVars, logVars>>

(* The reader thread: read_line returns with the first line, or with an    *)
(* empty line at end of file (the child is gone), or fails on bytes that   *)
(* are not UTF-8.  On Ok it sends the line; tx is dropped either way.      *)
(* chan: empty, full (the line read waits for rx), taken (rx received      *)
(* it), closed (tx dropped without a value), lost (sent after rx was       *)
(* dropped).  The value in the channel is the line that was read, which    *)
(* ReadLine keeps giving: the first line never changes once written, and   *)
(* an end of file is read only from a child that wrote none.               *)
ReadLine(p) == IF stdout[p] # NoLine THEN stdout[p] ELSE EmptyLine
ReaderThread(p) ==
    /\ reader[p] = "reading"
    /\ stdout[p] # NoLine \/ ~Running(p)
    /\ reader' = [reader EXCEPT ![p] = "done"]
    /\ chan' = [chan EXCEPT ![p] =
                  IF ReadLine(p).kind = "badutf8" THEN [@ EXCEPT !.st = "closed"]
                  ELSE IF @.rx THEN [@ EXCEPT !.st = "full"]
                  ELSE [@ EXCEPT !.st = "lost"]]
    /\ UNCHANGED <<unix, ids, servers, serversLock, proc, stdout, nextPid, calls, call, ret>>
    /\ UNCHANGED <<dirs, stVars, logVars>>

NoChan == [st |-> "empty", rx |-> FALSE]

-----------------------------------------------------------------------------
(* Callers.  A caller is a thread running one command at a time.           *)

IdleCall == [pc |-> "idle", op |-> None, ws |-> <<>>, child |-> 0, url |-> NoUrl,
             stale |-> FALSE, target |-> 0, pending |-> {}, polls |-> 0,
             termSent |-> FALSE, escalated |-> FALSE]

(* CommandResult of command op: Ok with the URL (none for a command that  *)
(* returns ()), or the error.  NoRet: the command the caller runs has not  *)
(* returned.                                                               *)
Ok(op, url) == [op |-> op, ok |-> TRUE, err |-> None, url |-> url]
Err(op, err) == [op |-> op, ok |-> FALSE, err |-> err, url |-> NoUrl]
NoRet == [op |-> None, ok |-> FALSE, err |-> "pending", url |-> NoUrl]

Return(c, r) ==
    /\ call' = [call EXCEPT ![c] = IdleCall]
    /\ ret' = [ret EXCEPT ![c] = r]

MapRemove(map, w) == [k \in DOMAIN map \ {w} |-> map[k]]
MapInsert_KeepFirst(map, w, h) == IF w \in DOMAIN map THEN map ELSE map @@ (w :> h)
MapInsert(map, w, h) == [k \in DOMAIN map \cup {w} |-> IF k = w THEN h ELSE map[k]]
ServerHandle(child, url) == [child |-> child, url |-> url]

(* start_workspace_server, lines 379-381: the two validations.             *)
StartValidate(c, w, kind) ==
    /\ call[c].pc = "idle"
    /\ calls < MaxCalls
    /\ calls' = calls + 1
    /\ IF validate_safe_id(w) # "Ok"
       THEN Return(c, Err("start", validate_safe_id(w)))
       ELSE IF validate_workspace_path(kind) # "Ok"
       THEN Return(c, Err("start", validate_workspace_path(kind)))
       ELSE /\ call' = [call EXCEPT ![c] = [IdleCall EXCEPT !.pc = "start_check",
                                                           !.op = "start", !.ws = w]]
            /\ ret' = [ret EXCEPT ![c] = NoRet]
    /\ UNCHANGED <<unix, ids, servers, serversLock, proc, stdout, reader, chan, nextPid>>
    /\ UNCHANGED <<dirs, stVars, logVars>>

(* What the probe of an existing entry decides, lines 388-407.             *)
ProbeExisting_AlwaysRestart(map, w, tw) ==
    IF w \notin DOMAIN map THEN "absent" ELSE "exited"
ProbeExisting(map, w, tw) ==
    IF w \notin DOMAIN map THEN "absent"
    ELSE IF tw = "none" THEN "live"
    ELSE IF tw = "some" THEN "exited"
    ELSE "error"

(* The map after the probe: an exited or unprobeable entry is removed.     *)
AfterProbe_KeepStale(map, w, probe) == map
AfterProbe(map, w, probe) ==
    IF probe \in {"exited", "error"} THEN MapRemove(map, w) ELSE map

(* Line 411: the guard goes out of scope at the end of the block, where    *)
(* the lock is released, before the command is built and spawned.          *)
GuardAfterCheck_Held(c) == c
GuardAfterCheck(c) == None

(* start_workspace_server, lines 386-411: lock, probe, unlock.             *)
StartCheck(c) ==
    /\ call[c].pc = "start_check"
    /\ serversLock = None
    /\ LET w == call[c].ws
           p == IF w \in DOMAIN servers THEN servers[w].child ELSE 0
       IN \E tw \in (IF p = 0 THEN {"none"} ELSE TryWait(p)) :
            LET probe == ProbeExisting(servers, w, tw)
            IN /\ servers' = AfterProbe(servers, w, probe)
               /\ proc' = IF p # 0 /\ tw = "some" THEN Reap(proc, p) ELSE proc
               /\ CASE probe = "live" ->
                         Return(c, Ok("start", servers[w].url))
                    [] probe = "error" ->
                         Return(c, Err("start", "TryWaitFailed"))
                    [] OTHER ->
                         /\ call' = [call EXCEPT ![c].pc = "start_spawn",
                                                 ![c].stale = (probe = "exited")]
                         /\ UNCHANGED ret
    /\ serversLock' = GuardAfterCheck(c)
    /\ UNCHANGED <<unix, ids, stdout, reader, chan, nextPid, calls>>
    /\ UNCHANGED <<dirs, stVars, logVars>>

(* start_workspace_server, lines 413-506: build the command, spawn the     *)
(* child, take its stdout, start the reader thread.  The entrypoint or the *)
(* sidecar may be missing and the spawn may fail.                          *)
StartSpawn(c) ==
    /\ call[c].pc = "start_spawn"
    /\ \/ /\ \E e \in {"NotFound", "SpawnFailed"} :
                Return(c, Err("start", e))
          /\ UNCHANGED <<proc, reader, chan, nextPid>>
       \/ /\ nextPid <= MaxSpawns
          /\ proc' = [proc EXCEPT ![nextPid] =
                        [st |-> "running", ws |-> call[c].ws, term |-> FALSE]]
          /\ reader' = [reader EXCEPT ![nextPid] = "reading"]
          /\ chan' = [chan EXCEPT ![nextPid] = [NoChan EXCEPT !.rx = TRUE]]
          /\ nextPid' = nextPid + 1
          /\ call' = [call EXCEPT ![c].pc = "start_wait", ![c].child = nextPid]
          /\ UNCHANGED ret
    /\ UNCHANGED <<unix, ids, servers, serversLock, stdout, calls>>
    /\ UNCHANGED <<dirs, stVars, logVars>>

(* Dropping a std::process::Child (an early return by `?`, or a handle     *)
(* replaced in or removed from the map) neither kills nor waits for the    *)
(* process.                                                                *)
DropChild(pr, p) == pr

(* What tokio::time::timeout(.., rx) resolves to, lines 509-520: the inner *)
(* future is polled first, so a value that is there wins over the timer.   *)
AwaitFirstLine_Unchannelled(ch) == "line"
AwaitFirstLine_NoTimer(ch) ==
    IF ch.st = "full" THEN "line"
    ELSE IF ch.st = "closed" THEN "closed"
    ELSE "pending"
AwaitFirstLine(ch) ==
    IF ch.st = "full" THEN "line"
    ELSE IF ch.st = "closed" THEN "closed"
    ELSE "elapsed"

(* start_workspace_server, lines 509-525: the handshake wait ends with a   *)
(* line, with the reader closed, or with the timer elapsed (time is not    *)
(* measured: the timer may elapse whenever no value is there); then the    *)
(* line is parsed.  rx is consumed in every case.                          *)
StartWait(c) ==
    /\ call[c].pc = "start_wait"
    /\ AwaitFirstLine(chan[call[c].child]) # "pending"
    /\ LET p == call[c].child
           w == call[c].ws
           got == AwaitFirstLine(chan[p])
           listening == ParseListening(ReadLine(p))
       IN /\ chan' = [chan EXCEPT ![p].rx = FALSE,
                                  ![p].st = IF got = "line" THEN "taken" ELSE @]
          /\ CASE got = "elapsed" ->
                    /\ Return(c, Err("start", "ServerTimeout"))
                    /\ proc' = DropChild(proc, p)
               [] got = "closed" ->
                    /\ Return(c, Err("start", "ReaderClosed"))
                    /\ proc' = DropChild(proc, p)
               [] got = "line" /\ ~listening.ok ->
                    /\ Return(c, Err("start", "HandshakeParse"))
                    /\ proc' = DropChild(proc, p)
               [] OTHER ->
                    /\ call' = [call EXCEPT ![c].pc = "start_insert",
                                            ![c].url = listening.url]
                    /\ UNCHANGED <<ret, proc>>
    /\ UNCHANGED <<unix, ids, servers, serversLock, stdout, reader, nextPid, calls>>
    /\ UNCHANGED <<dirs, stVars, logVars>>

(* The handle start_workspace_server inserts, lines 529-535.               *)
NewHandle_NoUrl(c) == ServerHandle(call[c].child, NoUrl)
NewHandle(c) == ServerHandle(call[c].child, call[c].url)

(* start_workspace_server, lines 527-542: lock, insert, unlock, create the *)
(* app data and transcripts directories, return the URL.                   *)
StartInsert(c) ==
    /\ call[c].pc = "start_insert"
    /\ serversLock = None
    /\ servers' = MapInsert(servers, call[c].ws, NewHandle(c))
    /\ proc' = IF call[c].ws \in DOMAIN servers
               THEN DropChild(proc, servers[call[c].ws].child) ELSE proc
    /\ dirs' = dirs \cup {"app_data", "transcripts"}
    /\ Return(c, Ok("start", call[c].url))
    /\ UNCHANGED <<unix, ids, serversLock, stdout, reader, chan, nextPid, calls>>
    /\ UNCHANGED <<stVars, logVars>>

(* stop_workspace_server, line 550.                                        *)
StopValidate(c, w) ==
    /\ call[c].pc = "idle"
    /\ calls < MaxCalls
    /\ calls' = calls + 1
    /\ IF validate_safe_id(w) # "Ok"
       THEN Return(c, Err("stop", validate_safe_id(w)))
       ELSE /\ call' = [call EXCEPT ![c] = [IdleCall EXCEPT !.pc = "stop_lock",
                                                           !.op = "stop", !.ws = w]]
            /\ ret' = [ret EXCEPT ![c] = NoRet]
    /\ UNCHANGED <<unix, ids, servers, serversLock, proc, stdout, reader, chan, nextPid>>
    /\ UNCHANGED <<dirs, stVars, logVars>>

(* graceful_kill, lines 100-121, as a whole: whichever way it goes (the    *)
(* child is seen exited by try_wait, or it is killed and waited for), the  *)
(* child has been reaped when it returns.  On Unix the child got SIGTERM.  *)
(* GkTerm, GkPoll and GkKill below take the same function step by step.    *)
graceful_kill_TermOnly(pr, p) == IF unix THEN SendSigterm(pr, p) ELSE pr
graceful_kill(pr, p) ==
    LET sent == IF unix THEN SendSigterm(pr, p) ELSE pr
    IN [sent EXCEPT ![p].st = "reaped"]

(* What stop_workspace_server (line 556) and stop_all return, whether or   *)
(* not a handle was found and terminated.                                  *)
StopReturn_ErrIfAbsent(op, found) == IF found THEN Ok(op, NoUrl) ELSE Err(op, "NotFound")
StopReturn(op, found) == Ok(op, NoUrl)

(* The children a stop has to terminate: map.remove(&workspace_id).        *)
Removed_AlsoStarting(map, w) ==
    (IF w \in DOMAIN map THEN {map[w].child} ELSE {})
      \cup {call[c].child : c \in {x \in Callers : call[x].ws = w /\ call[x].child # 0}}
Removed(map, w) == IF w \in DOMAIN map THEN {map[w].child} ELSE {}

(* stop_workspace_server, lines 552-553: lock, remove.  Without an entry   *)
(* the guard is dropped and Ok(()) returned.                               *)
StopLock(c) ==
    /\ call[c].pc = "stop_lock"
    /\ serversLock = None
    /\ LET w == call[c].ws
           pending == Removed(servers, w)
       IN /\ servers' = MapRemove(servers, w)
          /\ IF pending = {}
             THEN /\ Return(c, StopReturn("stop", FALSE))
                  /\ UNCHANGED serversLock
             ELSE /\ call' = [call EXCEPT ![c].pc = "kill", ![c].pending = pending]
                  /\ serversLock' = c
                  /\ UNCHANGED ret
    /\ UNCHANGED <<unix, ids, proc, stdout, reader, chan, nextPid, calls>>
    /\ UNCHANGED <<dirs, stVars, logVars>>

(* ServerManager::stop_all, lines 131-132: lock, drain the map.            *)
StopAll(c) ==
    /\ call[c].pc = "idle"
    /\ calls < MaxCalls
    /\ calls' = calls + 1
    /\ serversLock = None
    /\ LET pending == {servers[k].child : k \in DOMAIN servers}
       IN /\ servers' = [k \in {} |-> ServerHandle(0, NoUrl)]
          /\ IF pending = {}
             THEN /\ Return(c, StopReturn("stop_all", FALSE))
                  /\ UNCHANGED serversLock
             ELSE /\ call' = [call EXCEPT ![c] = [IdleCall EXCEPT !.pc = "kill",
                                                   !.op = "stop_all", !.pending = pending]]
                  /\ serversLock' = c
                  /\ ret' = [ret EXCEPT ![c] = NoRet]
    /\ UNCHANGED <<unix, ids, proc, stdout, reader, chan, nextPid>>
    /\ UNCHANGED <<dirs, stVars, logVars>>

(* After graceful_kill of child p has returned: stop_all goes on with the  *)
(* next drained handle; with none left the guard is dropped and the        *)
(* command returns.                                                        *)
AfterKill_KeepLock(c, p) ==
    /\ Return(c, StopReturn(call[c].op, TRUE))
    /\ UNCHANGED serversLock
AfterKill(c, p) ==
    LET rest == call[c].pending \ {p}
    IN IF rest # {}
       THEN /\ call' = [call EXCEPT ![c].pc = "kill", ![c].pending = rest,
                                    ![c].target = 0, ![c].polls = 0,
                                    ![c].termSent = FALSE, ![c].escalated = FALSE]
            /\ UNCHANGED <<serversLock, ret>>
       ELSE /\ Return(c, StopReturn(call[c].op, TRUE))
            /\ serversLock' = None

(* Lines 133 and 554: graceful_kill(&mut handle.child) for one removed     *)
(* handle (in the map's iteration order, which is arbitrary), run while    *)
(* the lock is held.                                                       *)
Kill(c) ==
    /\ call[c].pc = "kill"
    /\ \E p \in call[c].pending :
         /\ proc' = graceful_kill(proc, p)
         /\ AfterKill(c, p)
    /\ UNCHANGED <<unix, ids, servers, stdout, reader, chan, nextPid, calls>>
    /\ UNCHANGED <<dirs, stVars, logVars>>

-----------------------------------------------------------------------------
(* graceful_kill step by step.                                             *)

(* Entry: the child to terminate is one of the removed handles.            *)
GkEnter(c) ==
    /\ call[c].pc = "kill"
    /\ \E p \in call[c].pending :
         call' = [call EXCEPT ![c].pc = "gk_term", ![c].target = p]
    /\ UNCHANGED <<unix, ids, servers, serversLock, proc, stdout, reader, chan, nextPid, calls, ret>>
    /\ UNCHANGED <<dirs, stVars, logVars>>

(* Lines 102-108: on Unix, SIGTERM first; elsewhere straight to the kill.  *)
GkTerm(c) ==
    /\ call[c].pc = "gk_term"
    /\ IF unix
       THEN /\ proc' = SendSigterm(proc, call[c].target)
            /\ call' = [call EXCEPT ![c].pc = "gk_poll", ![c].termSent = TRUE]
       ELSE /\ call' = [call EXCEPT ![c].pc = "gk_kill"]
            /\ UNCHANGED proc
    /\ UNCHANGED <<unix, ids, servers, serversLock, stdout, reader, chan, nextPid, calls, ret>>
    /\ UNCHANGED <<dirs, stVars, logVars>>

(* Where the loop of lines 110-116 goes after a poll that was the n-th:    *)
(* return on Ok(Some), sleep and poll again on Ok(None) while polls are    *)
(* left, otherwise fall through to the forced kill.                        *)
AfterPoll(tw, n) ==
    IF tw = "some" THEN "gk_done"
    ELSE IF tw = "none" /\ n < PollLimit THEN "gk_poll"
    ELSE "gk_kill"

(* One iteration of the loop: child.try_wait(), then the 100 ms sleep.     *)
GkPoll(c) ==
    /\ call[c].pc = "gk_poll"
    /\ \E tw \in TryWait(call[c].target) :
         /\ proc' = IF tw = "some" THEN Reap(proc, call[c].target) ELSE proc
         /\ call' = [call EXCEPT ![c].pc = AfterPoll(tw, call[c].polls + 1),
                                 ![c].polls = @ + 1]
    /\ UNCHANGED <<unix, ids, servers, serversLock, stdout, reader, chan, nextPid, calls, ret>>
    /\ UNCHANGED <<dirs, stVars, logVars>>

(* Lines 119-120: child.kill(), child.wait().                              *)
GkKill(c) ==
    /\ call[c].pc = "gk_kill"
    /\ proc' = KillAndWait(proc, call[c].target)
    /\ call' = [call EXCEPT ![c].pc = "gk_done", ![c].escalated = TRUE]
    /\ UNCHANGED <<unix, ids, servers, serversLock, stdout, reader, chan, nextPid, calls, ret>>
    /\ UNCHANGED <<dirs, stVars, logVars>>

(* graceful_kill returns to stop_workspace_server or stop_all.             *)
GkReturn(c) ==
    /\ call[c].pc = "gk_done"
    /\ AfterKill(c, call[c].target)
    /\ UNCHANGED <<unix, ids, servers, proc, stdout, reader, chan, nextPid, calls>>
    /\ UNCHANGED <<dirs, stVars, logVars>>

GkStep(c) == GkEnter(c) \/ GkTerm(c) \/ GkPoll(c) \/ GkKill(c) \/ GkReturn(c)

-----------------------------------------------------------------------------
(* State persistence: PersistedState, its JSON text, load_state and        *)
(* save_state.                                                             *)

Tasks == {"t1", "t2"}

(* As many commands are run as there are tasks, by any of them.            *)
MaxOps == Cardinality(Tasks)

(* Option<String>: None is the empty sequence, Some(s) is <<s>>.           *)
NoneOpt == <<>>
Some(s) == <<s>>

(* The records the bounded documents are built from.                       *)
WorkspaceA ==
    [id |-> "w1", name |-> "A", path |-> "/a", created_at |-> "d0",
     last_opened_at |-> "d1", default_provider |-> NoneOpt,
     default_model |-> Some("m"), default_enable_mcp |-> TRUE, yolo |-> FALSE]
ThreadA ==
    [id |-> "th1", workspace_id |-> "w1", title |-> "T", created_at |-> "d0",
     last_message_at |-> "d1", status |-> "active"]

RECURSIVE SeqsUpTo(_, _)
SeqsUpTo(S, n) ==
    IF n = 0 THEN {<<>>}
    ELSE LET shorter == SeqsUpTo(S, n - 1)
         IN shorter \cup {Append(q, x) : q \in {r \in shorter : Len(r) = n - 1}, x \in S}

(* struct PersistedState, over the bounded versions and collections.       *)
Documents ==
    [version : 0..MaxVersion,
     workspaces : SeqsUpTo({WorkspaceA}, MaxRecs),
     threads : SeqsUpTo({ThreadA}, MaxRecs)]
NoDoc == [version |-> -1, workspaces |-> <<>>, threads |-> <<>>]

(* JSON text as the tokens serde_json writes and reads.  A nested object   *)
(* is one token holding its members.                                       *)
Null == [t |-> "null"]
Bool(b) == [t |-> "bool", b |-> b]
Obj(members) == [t |-> "obj", members |-> members]
LBrace == [t |-> "{"]
RBrace == [t |-> "}"]
LBrack == [t |-> "["]
RBrack == [t |-> "]"]
Key(k) == [t |-> "key", k |-> k]
IsValue(tok) == tok.t \in {"str", "num", "bool", "null", "obj"}

(* Serialize for Option<String>: null or the string.                       *)
OptionToJson_EmptyString(o) == IF o = NoneOpt THEN Str("") ELSE Str(o[1])
OptionToJson(o) == IF o = NoneOpt THEN Null ELSE Str(o[1])

(* Deserialize for Option<String>: null is None.                           *)
IsOptStr(v) == v.t \in {"str", "null"}
OptionFromJson(v) == IF v.t = "null" THEN NoneOpt ELSE Some(v.s)

(* derive(Serialize), rename_all = "camelCase", for WorkspaceRecord.       *)
WorkspaceToJson(r) ==
    Obj(("id" :> Str(r.id)) @@ ("name" :> Str(r.name)) @@ ("path" :> Str(r.path))
        @@ ("createdAt" :> Str(r.created_at))
        @@ ("lastOpenedAt" :> Str(r.last_opened_at))
        @@ ("defaultProvider" :> OptionToJson(r.default_provider))
        @@ ("defaultModel" :> OptionToJson(r.default_model))
        @@ ("defaultEnableMcp" :> Bool(r.default_enable_mcp))
        @@ ("yolo" :> Bool(r.yolo)))

(* derive(Deserialize) for WorkspaceRecord: every field but the two        *)
(* Options must be present, each with its type.                            *)
WorkspaceOk(v) ==
    /\ v.t = "obj"
    /\ {"id", "name", "path", "createdAt", "lastOpenedAt", "defaultEnableMcp", "yolo"}
          \subseteq DOMAIN v.members
    /\ \A k \in {"id", "name", "path", "createdAt", "lastOpenedAt"} : v.members[k].t = "str"
    /\ \A k \in {"defaultEnableMcp", "yolo"} : v.members[k].t = "bool"
    /\ \A k \in {"defaultProvider", "defaultModel"} \cap DOMAIN v.members :
          IsOptStr(v.members[k])
OptField(m, k) == IF k \in DOMAIN m THEN OptionFromJson(m[k]) ELSE NoneOpt
WorkspaceFromJson(v) ==
    LET m == v.members
    IN [id |-> m["id"].s, name |-> m["name"].s, path |-> m["path"].s,
        created_at |-> m["createdAt"].s, last_opened_at |-> m["lastOpenedAt"].s,
        default_provider |-> OptField(m, "defaultProvider"),
        default_model |-> OptField(m, "defaultModel"),
        default_enable_mcp |-> m["defaultEnableMcp"].b, yolo |-> m["yolo"].b]

(* derive(Serialize) and derive(Deserialize) for ThreadRecord.             *)
ThreadToJson(r) ==
    Obj(("id" :> Str(r.id)) @@ ("workspaceId" :> Str(r.workspace_id))
        @@ ("title" :> Str(r.title)) @@ ("createdAt" :> Str(r.created_at))
        @@ ("lastMessageAt" :> Str(r.last_message_at)) @@ ("status" :> Str(r.status)))
ThreadKeys == {"id", "workspaceId", "title", "createdAt", "lastMessageAt", "status"}
ThreadOk(v) ==
    /\ v.t = "obj"
    /\ ThreadKeys \subseteq DOMAIN v.members
    /\ \A k \in ThreadKeys : v.members[k].t = "str"
ThreadFromJson(v) ==
    LET m == v.members
    IN [id |-> m["id"].s, workspace_id |-> m["workspaceId"].s, title |-> m["title"].s,
        created_at |-> m["createdAt"].s, last_message_at |-> m["lastMessageAt"].s,
        status |-> m["status"].s]

(* serde_json::to_string_pretty(&state), line 602 (white space left out).  *)
JsonArray(items) == <<LBrack>> \o items \o <<RBrack>>
ToJson(d) ==
    <<LBrace, Key("version"), Num(d.version), Key("workspaces")>>
    \o JsonArray([i \in 1..Len(d.workspaces) |-> WorkspaceToJson(d.workspaces[i])])
    \o <<Key("threads")>>
    \o JsonArray([i \in 1..Len(d.threads) |-> ThreadToJson(d.threads[i])])
    \o <<RBrace>>

(* The reader of serde_json: the members of the top-level object, read     *)
(* from token i on.  A member is a key followed by a value or by an array  *)
(* of values.  The result maps each key to its value (an array is the      *)
(* sequence of its items); "bad" marks text that is not one JSON object,   *)
(* and a key met twice is an error for a derived struct.                   *)
ArrayEnd(raw, i) ==
    LET ends == {j \in i + 1..Len(raw) :
                   raw[j] = RBrack /\ \A k \in i + 1..j - 1 : IsValue(raw[k])}
    IN IF ends = {} THEN 0 ELSE CHOOSE j \in ends : TRUE
BadJson == [k \in {"bad"} |-> <<>>]
RECURSIVE ReadMembers(_, _, _)
ReadMembers(raw, i, acc) ==
    IF i > Len(raw) THEN BadJson
    ELSE IF raw[i] = RBrace THEN (IF i = Len(raw) THEN acc ELSE BadJson)
    ELSE IF raw[i].t # "key" \/ i + 1 > Len(raw) THEN BadJson
    ELSE IF raw[i].k \in DOMAIN acc THEN BadJson
    ELSE IF IsValue(raw[i + 1])
         THEN ReadMembers(raw, i + 2, acc @@ (raw[i].k :> <<"value", raw[i + 1]>>))
    ELSE IF raw[i + 1] = LBrack /\ ArrayEnd(raw, i + 1) # 0
         THEN LET j == ArrayEnd(raw, i + 1)
              IN ReadMembers(raw, j + 1,
                             acc @@ (raw[i].k :> <<"array", SubSeq(raw, i + 2, j - 1)>>))
    ELSE BadJson
NoJsonMembers == [k \in {} |-> <<>>]
ReadObject(raw) ==
    IF Len(raw) >= 2 /\ raw[1] = LBrace THEN ReadMembers(raw, 2, NoJsonMembers) ELSE BadJson

(* serde_json::from_str::<PersistedState>(&raw), line 583: all three       *)
(* fields are required (the struct has no serde(default)).                 *)
IsArrayOf(m, Good(_)) == m[1] = "array" /\ \A i \in 1..Len(m[2]) : Good(m[2][i])
FromJson(raw) ==
    LET m == ReadObject(raw)
    IN IF /\ {"version", "workspaces", "threads"} \subseteq DOMAIN m
          /\ "bad" \notin DOMAIN m
          /\ m["version"][1] = "value"
          /\ m["version"][2].t = "num"
          /\ m["version"][2].n \in Nat
          /\ IsArrayOf(m["workspaces"], WorkspaceOk)
          /\ IsArrayOf(m["threads"], ThreadOk)
       THEN [ok |-> TRUE,
             doc |-> [version |-> m["version"][2].n,
                      workspaces |-> [i \in 1..Len(m["workspaces"][2]) |->
                                         WorkspaceFromJson(m["workspaces"][2][i])],
                      threads |-> [i \in 1..Len(m["threads"][2]) |->
                                      ThreadFromJson(m["threads"][2][i])]]]
       ELSE [ok |-> FALSE, doc |-> NoDoc]

(* Lines 584-586: a stored version of 0 is read as version 1.              *)
NormalizeVersion(d) == IF d.version = 0 THEN [d EXCEPT !.version = 1] ELSE d

(* Lines 567-571: what load_state returns when there is no state file.     *)
DefaultState_Version0 == [version |-> 0, workspaces |-> <<>>, threads |-> <<>>]
DefaultState == [version |-> 1, workspaces |-> <<>>, threads |-> <<>>]

(* A file: NoFile when it does not exist, else its contents.  The state    *)
(* file path and p.with_extension("json.tmp") are different files.         *)
NoFile == <<[t |-> "absent"]>>
FileOf(d) == IF d = NoDoc THEN NoFile ELSE ToJson(d)

(* tokio::fs::write makes the file anew and writes the text in pieces:     *)
(* the first piece at offset 0, then the rest at the offset reached.       *)
Hole == [t |-> "nul"]
WriteAt(file, off, data) ==
    LET old == IF file = NoFile THEN <<>> ELSE file
        end == off + Len(data)
    IN [i \in 1..off |-> IF i <= Len(old) THEN old[i] ELSE Hole]
       \o data
       \o (IF Len(old) > end THEN SubSeq(old, end + 1, Len(old)) ELSE <<>>)
Split(raw) == Len(raw) \div 2
FirstPiece(raw) == SubSeq(raw, 1, Split(raw))
Rest(raw) == SubSeq(raw, Split(raw) + 1, Len(raw))

(* Each task's position and locals; what a finished command returned.      *)
(* seen and late are history: the document that was committed when         *)
(* load_state read the file, and whether a save_state had failed by then.  *)
IdleTask == [pc |-> "idle", doc |-> NoDoc, raw |-> <<>>, seen |-> NoDoc, late |-> FALSE]
NoOut == [op |-> "none", ok |-> FALSE, err |-> "pending", doc |-> NoDoc, seen |-> NoDoc,
          late |-> FALSE]
OutOk(op, d, seen, late) ==
    [op |-> op, ok |-> TRUE, err |-> "", doc |-> d, seen |-> seen, late |-> late]
OutErr(op, err) ==
    [op |-> op, ok |-> FALSE, err |-> err, doc |-> NoDoc, seen |-> NoDoc, late |-> FALSE]
Finish(t, o) ==
    /\ task' = [task EXCEPT ![t] = IdleTask]
    /\ out' = [out EXCEPT ![t] = o]
SaveFailed(o) == o.op = "save" /\ ~o.ok /\ o.err \in {"WriteTemp", "Rename"}

(* state_lock.0.lock().await returns when nobody holds the mutex.          *)
LockFree_Always(holder) == TRUE
LockFree(holder) == holder = None

(* load_state, lines 565-572: the existence check, made before the lock    *)
(* is taken.                                                               *)
LoadProbe(t) ==
    /\ task[t].pc = "idle"
    /\ ops < MaxOps
    /\ ops' = ops + 1
    /\ IF stateFile = NoFile
       THEN Finish(t, OutOk("load", DefaultState, NoDoc, FALSE))
       ELSE /\ task' = [task EXCEPT ![t].pc = "load_lock"]
            /\ out' = [out EXCEPT ![t] = NoOut]
    /\ UNCHANGED <<stateFile, tmpFile, stateLock, committed>>
    /\ UNCHANGED <<regVars, dirs, logVars>>

(* Line 576.                                                               *)
LoadLock(t) ==
    /\ task[t].pc = "load_lock"
    /\ LockFree(stateLock)
    /\ stateLock' = t
    /\ task' = [task EXCEPT ![t].pc = "load_read"]
    /\ UNCHANGED <<stateFile, tmpFile, out, committed, ops>>
    /\ UNCHANGED <<regVars, dirs, logVars>>

(* Lines 577-580: read_to_string, then the guard is dropped (also when     *)
(* the read fails).                                                        *)
LoadRead(t) ==
    /\ task[t].pc = "load_read"
    /\ \E readOk \in BOOLEAN :
         IF readOk /\ stateFile # NoFile
         THEN /\ task' = [task EXCEPT ![t].pc = "load_parse", ![t].raw = stateFile,
                                      ![t].seen = committed,
                                      ![t].late = \E u \in Tasks : SaveFailed(out[u])]
              /\ UNCHANGED out
         ELSE Finish(t, OutErr("load", "Read"))
    /\ stateLock' = None
    /\ UNCHANGED <<stateFile, tmpFile, committed, ops>>
    /\ UNCHANGED <<regVars, dirs, logVars>>

(* Lines 582-587.                                                          *)
LoadParse(t) ==
    /\ task[t].pc = "load_parse"
    /\ LET parsed == FromJson(task[t].raw)
       IN IF parsed.ok
          THEN Finish(t, OutOk("load", NormalizeVersion(parsed.doc), task[t].seen,
                               task[t].late))
          ELSE Finish(t, OutErr("load", "Parse"))
    /\ UNCHANGED <<stateFile, tmpFile, stateLock, committed, ops>>
    /\ UNCHANGED <<regVars, dirs, logVars>>

(* save_state, lines 596-605: ensure_dir of the parent, serialize, the     *)
(* temporary path.                                                         *)
SaveBegin(t, d) ==
    /\ task[t].pc = "idle"
    /\ ops < MaxOps
    /\ ops' = ops + 1
    /\ \E dirOk \in BOOLEAN :
         IF dirOk \/ "app_data" \in dirs
         THEN /\ dirs' = dirs \cup {"app_data"}
              /\ task' = [task EXCEPT ![t].pc = "save_lock", ![t].doc = d,
                                      ![t].raw = ToJson(d)]
              /\ out' = [out EXCEPT ![t] = NoOut]
         ELSE /\ Finish(t, OutErr("save", "EnsureDir"))
              /\ UNCHANGED dirs
    /\ UNCHANGED <<stateFile, tmpFile, stateLock, committed>>
    /\ UNCHANGED <<regVars, logVars>>

(* Line 608.                                                               *)
SaveLock(t) ==
    /\ task[t].pc = "save_lock"
    /\ LockFree(stateLock)
    /\ stateLock' = t
    /\ task' = [task EXCEPT ![t].pc = "save_write"]
    /\ UNCHANGED <<stateFile, tmpFile, out, committed, ops>>
    /\ UNCHANGED <<regVars, dirs, logVars>>

(* Lines 609-611, first half: the temporary file is made anew and the      *)
(* first piece written; when that fails the command returns the error     *)
(* and the guard is dropped.                                               *)
SaveWrite(t) ==
    /\ task[t].pc = "save_write"
    /\ \E ioOk \in BOOLEAN :
         IF ioOk
         THEN /\ tmpFile' = FirstPiece(task[t].raw)
              /\ task' = [task EXCEPT ![t].pc = "save_more"]
              /\ UNCHANGED <<out, stateLock>>
         ELSE /\ Finish(t, OutErr("save", "WriteTemp"))
              /\ stateLock' = None
              /\ UNCHANGED tmpFile
    /\ UNCHANGED <<stateFile, committed, ops>>
    /\ UNCHANGED <<regVars, dirs, logVars>>

(* Lines 609-611, second half: the rest of the text; a failure here leaves *)
(* a partial temporary file.                                               *)
SaveMore(t) ==
    /\ task[t].pc = "save_more"
    /\ \E ioOk \in BOOLEAN :
         IF ioOk
         THEN /\ tmpFile' = WriteAt(tmpFile, Split(task[t].raw), Rest(task[t].raw))
              /\ task' = [task EXCEPT ![t].pc = "save_rename"]
              /\ UNCHANGED <<out, stateLock>>
         ELSE /\ Finish(t, OutErr("save", "WriteTemp"))
              /\ stateLock' = None
              /\ UNCHANGED tmpFile
    /\ UNCHANGED <<stateFile, committed, ops>>
    /\ UNCHANGED <<regVars, dirs, logVars>>

(* What the state file holds after tokio::fs::rename(&tmp, &p): the        *)
(* rename replaces it in one step, or fails and leaves it alone.           *)
Renamed_NotAtomic(old, new, ioOk) == IF ioOk THEN new ELSE FirstPiece(new)
Renamed(old, new, ioOk) == IF ioOk THEN new ELSE old

(* Lines 612-617.                                                          *)
SaveRename(t) ==
    /\ task[t].pc = "save_rename"
    /\ \E ioOk \in BOOLEAN :
         /\ stateFile' = Renamed(stateFile, tmpFile, ioOk)
         /\ IF ioOk
            THEN /\ tmpFile' = NoFile
                 /\ committed' = task[t].doc
                 /\ Finish(t, OutOk("save", task[t].doc, NoDoc, FALSE))
            ELSE /\ Finish(t, OutErr("save", "Rename"))
                 /\ UNCHANGED <<tmpFile, committed>>
    /\ stateLock' = None
    /\ UNCHANGED ops
    /\ UNCHANGED <<regVars, dirs, logVars>>

-----------------------------------------------------------------------------
(* Transcripts: read_transcript, append_transcript_event,                  *)
(* append_transcript_batch and delete_transcript on the files              *)
(* transcripts/<thread_id>.jsonl.                                          *)

(* Thread ids the UI passes: two safe ones, and BadId.                     *)
ThA == <<"a">>
ThB == <<"b", "-", "2">>
LogIds == {ThA, ThB}

(* Text as pieces: white space, an upper-case letter, lower-case pieces.   *)
IsWhitespace(c) == c = " "
ToLowerChar(c) == IF c = "S" THEN "s" ELSE c

(* str::trim                                                               *)
RECURSIVE TrimStart(_)
TrimStart(s) ==
    IF s # <<>> /\ IsWhitespace(Head(s)) THEN TrimStart(Tail(s)) ELSE s
RECURSIVE TrimEnd(_)
TrimEnd(s) ==
    IF s # <<>> /\ IsWhitespace(s[Len(s)]) THEN TrimEnd(SubSeq(s, 1, Len(s) - 1)) ELSE s
Trim(s) == TrimEnd(TrimStart(s))

(* str::to_lowercase                                                       *)
ToLowercase(s) == [i \in 1..Len(s) |-> ToLowerChar(s[i])]

(* Lines 635, 674-677 and 721-724: direction.trim().to_lowercase() must be *)
(* "server" or "client".                                                   *)
DirServer == <<"s", "erver">>
DirClient == <<"client">>
NormalizeDirection(d) == ToLowercase(Trim(d))
DirectionOk_Any(d) == TRUE
DirectionOk(d) == NormalizeDirection(d) \in {DirServer, DirClient}

(* The events the UI supplies: (ts, thread_id, direction, payload).        *)
Event(ts, id, dir, payload) == [ts |-> ts, thread_id |-> id, direction |-> dir, payload |-> payload]
Events ==
    { Event("d0", ThA, <<" ", "S", "erver", " ">>, Null),
      Event("d1", ThA, DirClient, Num(1)),
      Event("d2", ThB, DirServer, Str("p")),
      Event("d3", ThA, <<"x">>, Null),
      Event("d4", BadId, DirServer, Null) }
EventOk(e) == validate_safe_id(e.thread_id) = "Ok" /\ DirectionOk(e.direction)

(* Lines 684-692 and 744-753: the TranscriptEvent that is stored, and      *)
(* serde_json::to_string of it: one line of JSON.                          *)
TranscriptEvent(e) == [e EXCEPT !.direction = NormalizeDirection(e.direction)]
EventLine(te) ==
    JsonLine(("ts" :> Str(te.ts)) @@ ("threadId" :> Str(te.thread_id))
             @@ ("direction" :> Str(te.direction)) @@ ("payload" :> te.payload))

(* Lines of a transcript file that are not events: an empty line, a line   *)
(* of white space, and a line that is not JSON.                            *)
SpaceLine == [kind |-> "space", members |-> NoMembers]
GarbageLine == [kind |-> "garbage", members |-> NoMembers]
TruncatedLine == JsonLine(("ts" :> Str("d0")) @@ ("threadId" :> Str(ThB)))

(* Line 644-647: line.trim().is_empty()                                    *)
IsBlank(line) == line.kind \in {"empty", "space"}

(* serde_json::from_str::<TranscriptEvent>(trimmed), line 648.             *)
ParseEvent(line) ==
    IF /\ line.kind = "json"
       /\ {"ts", "threadId", "direction", "payload"} \subseteq DOMAIN line.members
       /\ IsStr(line.members["ts"])
       /\ IsStr(line.members["threadId"])
       /\ IsStr(line.members["direction"])
    THEN [ok |-> TRUE,
          evt |-> Event(line.members["ts"].s, line.members["threadId"].s,
                        line.members["direction"].s, line.members["payload"])]
    ELSE [ok |-> FALSE, evt |-> Event("", <<>>, <<>>, Null)]

(* A transcript file: NoLog when it does not exist, else its lines.        *)
NoLog == <<[kind |-> "absent", members |-> NoMembers]>>
Exists(file) == file # NoLog

(* What a finished transcript command returned.                            *)
NoLogOut == [op |-> "none", ok |-> FALSE, err |-> "pending", id |-> <<>>, line |-> 0,
             events |-> <<>>]
LogOk(op, id, events) ==
    [op |-> op, ok |-> TRUE, err |-> "", id |-> id, line |-> 0, events |-> events]
LogErr(op, id, err, line) ==
    [op |-> op, ok |-> FALSE, err |-> err, id |-> id, line |-> line, events |-> <<>>]

(* Lines 642-660: the loop over raw.lines().enumerate().  The index of a   *)
(* line counts every line of the file, blank ones too.                     *)
LineNumber_SkippingBlanks(file, i) == Cardinality({j \in 1..i : ~IsBlank(file[j])})
LineNumber(file, i) == i
ReadLines(id, file) ==
    LET bad == {i \in 1..Len(file) : ~IsBlank(file[i]) /\ ~ParseEvent(file[i]).ok}
        good == SelectSeq(file, LAMBDA l : ~IsBlank(l))
    IN IF bad # {}
       THEN LogErr("read", id, "Parse",
                   LineNumber(file, CHOOSE i \in bad : \A j \in bad : i <= j))
       ELSE LogOk("read", id, [i \in 1..Len(good) |-> ParseEvent(good[i]).evt])

(* The file after a write of data through a handle opened with append.     *)
Appended(file, data) == file \o data

(* The reference: the files after append_transcript_event of each event    *)
(* of a sequence in turn, each write done before the next call.            *)
AppendOneFile(files, e) ==
    [files EXCEPT ![e.thread_id] =
        Appended(IF Exists(@) THEN @ ELSE <<>>, <<EventLine(TranscriptEvent(e))>>)]
RECURSIVE AppendEach(_, _)
AppendEach(files, es) ==
    IF es = <<>> THEN files ELSE AppendEach(AppendOneFile(files, Head(es)), Tail(es))

(* Lines 718-733: every event is validated, in order, and grouped by       *)
(* thread before anything is written.  BatchError: what the loop returns.  *)
BatchValid_FirstOnly(es) == EventOk(es[1])
BatchValid(es) == \A i \in 1..Len(es) : EventOk(es[i])
BatchError(es) ==
    LET i == CHOOSE k \in 1..Len(es) : ~EventOk(es[k]) /\ \A j \in 1..k - 1 : EventOk(es[j])
    IN IF validate_safe_id(es[i].thread_id) # "Ok" THEN "InvalidInput" ELSE "Direction"
GroupByThread_Reversed(es) ==
    [id \in {es[i].thread_id : i \in 1..Len(es)} |->
        LET mine == SelectSeq(es, LAMBDA e : e.thread_id = id)
        IN [i \in 1..Len(mine) |-> mine[Len(mine) + 1 - i]]]
GroupByThread(es) ==
    [id \in {es[i].thread_id : i \in 1..Len(es)} |->
        SelectSeq(es, LAMBDA e : e.thread_id = id)]

(* Lines 741-754: the buffer of all lines of one thread.                   *)
BatchBuffer(es) == [i \in 1..Len(es) |-> EventLine(TranscriptEvent(es[i]))]

Batches == SeqsUpTo(Events, MaxBatch)

(* The position of the transcript command in progress.                     *)
LogIdleCall == [pc |-> "idle", todo |-> <<>>]

(* tokio::fs::File::write_all hands the bytes to a blocking task and       *)
(* returns; the file handle is dropped without flush, so the write is      *)
(* done by BlockingWrite at some later time.  A write is pending as        *)
(* (thread id, lines, number of the command that issued it).               *)
PendingWrite(id, data, n) == [id |-> id, data |-> data, n |-> n]
Enqueue(id, data) ==
    /\ pendingW' = pendingW \cup {PendingWrite(id, data, cmds)}
    /\ raced' = (raced \/ \E w \in pendingW : w.id = id)

(* The blocking task of a pending write runs: one write to a handle opened *)
(* with append.                                                            *)
BlockingWrite(w) ==
    /\ w \in pendingW
    /\ pendingW' = pendingW \ {w}
    /\ logs' = [logs EXCEPT ![w.id] = Appended(@, w.data)]
    /\ UNCHANGED <<lcall, lout, cmds, supplied, viaOne, raced, dirs>>
    /\ UNCHANGED <<regVars, stVars>>

(* OpenOptions::new().create(true).append(true).open(&p)                   *)
Opened(files, id) == [files EXCEPT ![id] = IF Exists(@) THEN @ ELSE <<>>]

(* append_transcript_event, lines 664-705.                                 *)
AppendTranscriptEvent(e) ==
    /\ lcall.pc = "idle"
    /\ cmds < MaxCmds
    /\ cmds' = cmds + 1
    /\ UNCHANGED lcall
    /\ IF validate_safe_id(e.thread_id) # "Ok"
       THEN /\ lout' = LogErr("append", e.thread_id, "InvalidInput", 0)
            /\ UNCHANGED <<logs, pendingW, supplied, viaOne, raced, dirs>>
       ELSE IF ~DirectionOk(e.direction)
       THEN /\ lout' = LogErr("append", e.thread_id, "Direction", 0)
            /\ UNCHANGED <<logs, pendingW, supplied, viaOne, raced, dirs>>
       ELSE \E openOk \in BOOLEAN :
              /\ dirs' = dirs \cup {"app_data", "transcripts"}
              /\ IF openOk
                 THEN /\ logs' = Opened(logs, e.thread_id)
                      /\ Enqueue(e.thread_id, <<EventLine(TranscriptEvent(e))>>)
                      /\ supplied' = [supplied EXCEPT ![e.thread_id] =
                                         Append(@, [evt |-> e, via |-> "one"])]
                      /\ viaOne' = AppendOneFile(viaOne, e)
                      /\ lout' = LogOk("append", e.thread_id, <<>>)
                 ELSE /\ lout' = LogErr("append", e.thread_id, "Open", 0)
                      /\ UNCHANGED <<logs, pendingW, supplied, viaOne, raced>>
    /\ UNCHANGED <<regVars, stVars>>

(* append_transcript_batch, lines 710-736: the empty batch, validation and *)
(* grouping, ensure_dir.                                                   *)
BatchBegin(es) ==
    /\ lcall.pc = "idle"
    /\ cmds < MaxCmds
    /\ cmds' = cmds + 1
    /\ IF es = <<>>
       THEN /\ lout' = LogOk("batch", <<>>, <<>>)
            /\ UNCHANGED <<lcall, supplied, viaOne, dirs>>
       ELSE IF ~BatchValid(es)
       THEN /\ lout' = LogErr("batch", <<>>, BatchError(es), 0)
            /\ UNCHANGED <<lcall, supplied, viaOne, dirs>>
       ELSE /\ lcall' = [pc |-> "batch_write", todo |-> GroupByThread(es)]
            /\ lout' = NoLogOut
            /\ dirs' = dirs \cup {"app_data", "transcripts"}
            /\ supplied' = [id \in LogIds |->
                              supplied[id] \o
                              [i \in 1..Len(SelectSeq(es, LAMBDA e : e.thread_id = id)) |->
                                 [evt |-> SelectSeq(es, LAMBDA e : e.thread_id = id)[i],
                                  via |-> "batch"]]]
            /\ viaOne' = AppendEach(viaOne, es)
    /\ UNCHANGED <<logs, pendingW, raced>>
    /\ UNCHANGED <<regVars, stVars>>

(* Lines 738-763: one thread of the map, in the map's order: its buffer,   *)
(* open, write_all.  A failed open returns the error, leaving the threads  *)
(* already written as they are.  Line 765 when no thread is left.          *)
Without(f, k) == [x \in DOMAIN f \ {k} |-> f[x]]
BatchWrite ==
    /\ lcall.pc = "batch_write"
    /\ \E id \in DOMAIN lcall.todo, openOk \in BOOLEAN :
         IF openOk
         THEN /\ logs' = Opened(logs, id)
              /\ Enqueue(id, BatchBuffer(lcall.todo[id]))
              /\ IF DOMAIN lcall.todo = {id}
                 THEN /\ lcall' = LogIdleCall
                      /\ lout' = LogOk("batch", <<>>, <<>>)
                 ELSE /\ lcall' = [lcall EXCEPT !.todo = Without(lcall.todo, id)]
                      /\ UNCHANGED lout
         ELSE /\ lcall' = LogIdleCall
              /\ lout' = LogErr("batch", id, "Open", 0)
              /\ raced' = TRUE
              /\ UNCHANGED <<logs, pendingW>>
    /\ UNCHANGED <<cmds, supplied, viaOne, dirs>>
    /\ UNCHANGED <<regVars, stVars>>

(* read_transcript, lines 625-661.                                         *)
ReadTranscript(id) ==
    /\ lcall.pc = "idle"
    /\ cmds < MaxCmds
    /\ cmds' = cmds + 1
    /\ IF validate_safe_id(id) # "Ok"
       THEN lout' = LogErr("read", id, "InvalidInput", 0)
       ELSE IF ~Exists(logs[id])
       THEN lout' = LogOk("read", id, <<>>)
       ELSE \E readOk \in BOOLEAN :
              lout' = IF readOk THEN ReadLines(id, logs[id]) ELSE LogErr("read", id, "Read", 0)
    /\ UNCHANGED <<logs, pendingW, lcall, supplied, viaOne, raced, dirs>>
    /\ UNCHANGED <<regVars, stVars>>

(* delete_transcript, lines 769-780.  The writes still pending for the     *)
(* removed file go to a file that no longer has a name.                    *)
DeleteTranscript(id) ==
    /\ lcall.pc = "idle"
    /\ cmds < MaxCmds
    /\ cmds' = cmds + 1
    /\ IF validate_safe_id(id) # "Ok"
       THEN /\ lout' = LogErr("delete", id, "InvalidInput", 0)
            /\ UNCHANGED <<logs, pendingW, supplied, viaOne>>
       ELSE IF ~Exists(logs[id])
       THEN /\ lout' = LogOk("delete", id, <<>>)
            /\ UNCHANGED <<logs, pendingW, supplied, viaOne>>
       ELSE \E removeOk \in BOOLEAN :
              IF removeOk
              THEN /\ logs' = [logs EXCEPT ![id] = NoLog]
                   /\ pendingW' = {w \in pendingW : w.id # id}
                   /\ supplied' = [supplied EXCEPT ![id] = <<>>]
                   /\ viaOne' = [viaOne EXCEPT ![id] = NoLog]
                   /\ lout' = LogOk("delete", id, <<>>)
              ELSE /\ lout' = LogErr("delete", id, "Remove", 0)
                   /\ UNCHANGED <<logs, pendingW, supplied, viaOne>>
    /\ UNCHANGED <<lcall, raced, dirs>>
    /\ UNCHANGED <<regVars, stVars>>

(* Lines 630, 672, 719 and 771: the validation of the identifier that      *)
(* every command opens with, on an identifier of any content: the command  *)
(* returns the error, or goes on.                                          *)
ValidateId(id) ==
    /\ lcall.pc = "idle"
    /\ lout' = IF validate_safe_id(id) = "Ok"
               THEN LogOk("validate", id, <<>>)
               ELSE LogErr("validate", id, validate_safe_id(id), 0)
    /\ UNCHANGED <<logs, pendingW, lcall, cmds, supplied, viaOne, raced, dirs>>
    /\ UNCHANGED <<regVars, stVars>>

(* No transcript command has run.                                          *)
LogIdle ==
    /\ logs = [id \in LogIds |-> NoLog]
    /\ pendingW = {}
    /\ lcall = LogIdleCall
    /\ lout = NoLogOut
    /\ cmds = 0
    /\ supplied = [id \in LogIds |-> <<>>]
    /\ viaOne = [id \in LogIds |-> NoLog]
    /\ raced = FALSE

-----------------------------------------------------------------------------
(* The registry specification.                                             *)

NoServers == [k \in {} |-> ServerHandle(0, NoUrl)]

RegIdle ==
    /\ serversLock = None
    /\ proc = [p \in Pids |-> NoProc]
    /\ stdout = [p \in Pids |-> NoLine]
    /\ reader = [p \in Pids |-> "none"]
    /\ chan = [p \in Pids |-> NoChan]
    /\ nextPid = 1
    /\ calls = 0
    /\ call = [c \in Callers |-> IdleCall]
    /\ ret = [c \in Callers |-> NoRet]

StIdle ==
    /\ stateFile = NoFile
    /\ tmpFile = NoFile
    /\ stateLock = None
    /\ task = [t \in Tasks |-> IdleTask]
    /\ out = [t \in Tasks |-> NoOut]
    /\ committed = NoDoc
    /\ ops = 0

Init ==
    /\ unix = TRUE
    /\ ids = {W1, BadId}
    /\ servers = NoServers
    /\ RegIdle
    /\ dirs = {}
    /\ StIdle
    /\ LogIdle

Next ==
    \/ \E c \in Callers, w \in ids, kind \in PathKinds : StartValidate(c, w, kind)
    \/ \E c \in Callers : StartCheck(c)
    \/ \E c \in Callers : StartSpawn(c)
    \/ \E c \in Callers : StartWait(c)
    \/ \E c \in Callers : StartInsert(c)
    \/ \E c \in Callers, w \in ids : StopValidate(c, w)
    \/ \E c \in Callers : StopLock(c)
    \/ \E c \in Callers : StopAll(c)
    \/ \E c \in Callers : Kill(c)
    \/ \E p \in Pids : \E l \in ChildLines(p) : ChildWriteLine(p, l)
    \/ \E p \in Pids : ChildExit(p)
    \/ \E p \in Pids : ReaderThread(p)

Spec == Init /\ [][Next]_vars

-----------------------------------------------------------------------------
(* graceful_kill alone: stop_workspace_server has removed the handle of a  *)
(* child that handshook (a state Spec reaches) and, holding the lock, is   *)
(* about to call graceful_kill; the child runs or has already exited.  The *)
(* thread that runs graceful_kill is scheduled (weak fairness); nothing is *)
(* assumed of the child.                                                   *)

Killer == "c1"

InitKill ==
    /\ unix \in BOOLEAN
    /\ ids = {W1}
    /\ servers = NoServers
    /\ serversLock = Killer
    /\ \E st \in {"running", "exited"} :
         proc = [p \in Pids |-> IF p = 1 THEN [st |-> st, ws |-> W1, term |-> FALSE]
                                ELSE NoProc]
    /\ stdout = [p \in Pids |-> IF p = 1 THEN Listening(Url(PortOf(1)), PortOf(1))
                                ELSE NoLine]
    /\ reader = [p \in Pids |-> IF p = 1 THEN "done" ELSE "none"]
    /\ chan = [p \in Pids |-> IF p = 1 THEN [st |-> "taken", rx |-> FALSE] ELSE NoChan]
    /\ nextPid = 2
    /\ calls = 2
    /\ call = [c \in Callers |->
                 IF c = Killer
                 THEN [IdleCall EXCEPT !.pc = "kill", !.op = "stop", !.ws = W1,
                                       !.pending = {1}]
                 ELSE IdleCall]
    /\ ret = [c \in Callers |-> IF c = Killer THEN NoRet ELSE Ok("start", Url(PortOf(1)))]
    /\ dirs = {"app_data", "transcripts"}
    /\ StIdle
    /\ LogIdle

NextKill ==
    \/ GkEnter(Killer)
    \/ GkTerm(Killer)
    \/ GkPoll(Killer)
    \/ GkKill(Killer)
    \/ GkReturn(Killer)
    \/ ChildExit(1)

SpecKill == InitKill /\ [][NextKill]_vars /\ WF_vars(GkStep(Killer))

(* load_state and save_state run by concurrent tasks.  The data directory  *)
(* is fresh, or holds the state file an earlier run of the program saved.  *)
InitState ==
    /\ unix = TRUE
    /\ ids = {W1}
    /\ servers = NoServers
    /\ RegIdle
    /\ committed \in Documents \cup {NoDoc}
    /\ stateFile = FileOf(committed)
    /\ dirs = IF committed = NoDoc THEN {} ELSE {"app_data"}
    /\ tmpFile = NoFile
    /\ stateLock = None
    /\ task = [t \in Tasks |-> IdleTask]
    /\ out = [t \in Tasks |-> NoOut]
    /\ ops = 0
    /\ LogIdle

NextState ==
    \/ \E t \in Tasks : LoadProbe(t)
    \/ \E t \in Tasks : LoadLock(t)
    \/ \E t \in Tasks : LoadRead(t)
    \/ \E t \in Tasks : LoadParse(t)
    \/ \E t \in Tasks, d \in Documents : SaveBegin(t, d)
    \/ \E t \in Tasks : SaveLock(t)
    \/ \E t \in Tasks : SaveWrite(t)
    \/ \E t \in Tasks : SaveMore(t)
    \/ \E t \in Tasks : SaveRename(t)

SpecState == InitState /\ [][NextState]_vars

(* The transcript commands, run one after the other, with the blocking     *)
(* writes done in the background.  Thread ThA has no file yet; the file    *)
(* of ThB is absent or was left by an earlier run, whole or damaged.       *)
StoredB == EventLine(TranscriptEvent(Event("d2", ThB, DirServer, Str("p"))))
InitialLogs ==
    { NoLog,
      <<StoredB>>,
      <<StoredB, EmptyLine, StoredB>>,
      <<StoredB, EmptyLine, GarbageLine, StoredB>>,
      <<SpaceLine, TruncatedLine>> }

InitLog ==
    /\ unix = TRUE
    /\ ids = {W1}
    /\ servers = NoServers
    /\ RegIdle
    /\ StIdle
    /\ logs \in {f \in [LogIds -> InitialLogs] : f[ThA] = NoLog}
    /\ dirs = IF Exists(logs[ThB]) THEN {"app_data", "transcripts"} ELSE {}
    /\ pendingW = {}
    /\ lcall = LogIdleCall
    /\ lout = NoLogOut
    /\ cmds = 0
    /\ supplied = [id \in LogIds |-> <<>>]
    /\ viaOne = logs
    /\ raced = FALSE

NextLog ==
    \/ \E e \in Events : AppendTranscriptEvent(e)
    \/ \E es \in Batches : BatchBegin(es)
    \/ BatchWrite
    \/ \E w \in pendingW : BlockingWrite(w)
    \/ \E id \in LogIds \cup {BadId} : ReadTranscript(id)
    \/ \E id \in LogIds \cup {BadId} : DeleteTranscript(id)

SpecLog == InitLog /\ [][NextLog]_vars

-----------------------------------------------------------------------------
(* The identifier specification: validate_safe_id on identifiers of every  *)
(* content up to MaxShortId characters, and on long identifiers around the *)
(* length limit, of one-byte and of two-byte characters.                   *)

IdChars == AsciiAlnum \cup NonAsciiAlnum \cup {"-", "_", ".", "/"}
Repeat(c, n) == [i \in 1..n |-> c]
LongIds ==
    {Repeat(c, n) : c \in {"a", "e'"},
                    n \in {MaxIdLen \div 2, MaxIdLen \div 2 + 1, MaxIdLen, MaxIdLen + 1}}
TestIds == SeqsUpTo(IdChars, MaxShortId) \cup LongIds

InitId ==
    /\ unix = TRUE
    /\ ids = {W1}
    /\ servers = NoServers
    /\ RegIdle
    /\ StIdle
    /\ LogIdle
    /\ dirs = {}
    /\ cmds = 0
    /\ supplied = [id \in LogIds |-> <<>>]
    /\ viaOne = logs

NextId == \E id \in TestIds : ValidateId(id)

SpecId == InitId /\ [][NextId]_vars

-----------------------------------------------------------------------------
(* The registry with two workspaces.                                       *)

InitTwo ==
    /\ unix = TRUE
    /\ ids = {W1, W2}
    /\ servers = NoServers
    /\ RegIdle
    /\ dirs = {}
    /\ StIdle
    /\ LogIdle

SpecTwo == InitTwo /\ [][Next]_vars

-----------------------------------------------------------------------------
(* The two locks together: registry commands and state-file commands run   *)
(* by concurrent threads, MaxCalls commands in all.  An earlier start has  *)
(* registered child 1 of the workspace and an earlier save has written the *)
(* state file (states Spec and SpecState reach).  Every thread that can    *)
(* take a step is scheduled (weak fairness): parking_lot and tokio mutexes *)
(* wake a waiting thread when the lock is released.  Nothing is assumed    *)
(* of the children.                                                        *)

InitLocks ==
    /\ unix = TRUE
    /\ ids = {W1}
    /\ servers = MapInsert(NoServers, W1, ServerHandle(1, Url(PortOf(1))))
    /\ serversLock = None
    /\ proc = [p \in Pids |-> IF p = 1 THEN [st |-> "running", ws |-> W1, term |-> FALSE]
                              ELSE NoProc]
    /\ stdout = [p \in Pids |-> IF p = 1 THEN Listening(Url(PortOf(1)), PortOf(1))
                                ELSE NoLine]
    /\ reader = [p \in Pids |-> IF p = 1 THEN "done" ELSE "none"]
    /\ chan = [p \in Pids |-> IF p = 1 THEN [st |-> "taken", rx |-> FALSE] ELSE NoChan]
    /\ nextPid = 2
    /\ calls = 0
    /\ call = [c \in Callers |-> IdleCall]
    /\ ret = [c \in Callers |-> NoRet]
    /\ dirs = {"app_data", "transcripts"}
    /\ committed = DefaultState
    /\ stateFile = FileOf(committed)
    /\ tmpFile = NoFile
    /\ stateLock = None
    /\ task = [t \in Tasks |-> IdleTask]
    /\ out = [t \in Tasks |-> NoOut]
    /\ ops = 0
    /\ LogIdle

(* A further command may begin.                                            *)
Budget == calls + ops < MaxCalls

(* The next step of the command caller c runs; of the command task t runs. *)
CallerStep(c) ==
    \/ StartCheck(c)
    \/ StartSpawn(c)
    \/ StartWait(c)
    \/ StartInsert(c)
    \/ StopLock(c)
    \/ Kill(c)
TaskStep(t) ==
    \/ LoadLock(t)
    \/ LoadRead(t)
    \/ LoadParse(t)
    \/ SaveLock(t)
    \/ SaveWrite(t)
    \/ SaveMore(t)
    \/ SaveRename(t)

ThreadStep == (\E c \in Callers : CallerStep(c)) \/ (\E t \in Tasks : TaskStep(t))

NextLocks ==
    \/ Budget /\ \E c \in Callers : StartValidate(c, W1, "dir")
    \/ Budget /\ \E c \in Callers : StopValidate(c, W1)
    \/ Budget /\ \E c \in Callers : StopAll(c)
    \/ Budget /\ \E t \in Tasks : LoadProbe(t)
    \/ Budget /\ \E t \in Tasks : SaveBegin(t, DefaultState)
    \/ \E c \in Callers : CallerStep(c)
    \/ \E t \in Tasks : TaskStep(t)
    \/ \E p \in Pids : ChildWriteLine(p, Listening(Url(PortOf(p)), PortOf(p)))
    \/ \E p \in Pids : ChildExit(p)
    \/ \E p \in Pids : ReaderThread(p)

SpecLocks ==
    /\ InitLocks
    /\ [][NextLocks]_vars
    /\ WF_vars(ThreadStep)

-----------------------------------------------------------------------------
(* Registry and transcript commands together, with valid and with invalid  *)
(* arguments, MaxCalls commands in all (batches apart).  The application   *)
(* is fresh, or an earlier run has registered child 1 of the workspace and *)
(* left a transcript of thread b-2.                                        *)

InitReject ==
    /\ unix = TRUE
    /\ ids = {W1, BadId}
    /\ serversLock = None
    /\ nextPid \in {1, 2}
    /\ servers = IF nextPid = 1 THEN NoServers
                 ELSE MapInsert(NoServers, W1, ServerHandle(1, Url(PortOf(1))))
    /\ proc = [p \in Pids |-> IF p < nextPid THEN [st |-> "running", ws |-> W1, term |-> FALSE]
                              ELSE NoProc]
    /\ stdout = [p \in Pids |-> IF p < nextPid THEN Listening(Url(PortOf(1)), PortOf(1))
                                ELSE NoLine]
    /\ reader = [p \in Pids |-> IF p < nextPid THEN "done" ELSE "none"]
    /\ chan = [p \in Pids |-> IF p < nextPid THEN [st |-> "taken", rx |-> FALSE] ELSE NoChan]
    /\ calls = 0
    /\ call = [c \in Callers |-> IdleCall]
    /\ ret = [c \in Callers |-> NoRet]
    /\ dirs = IF nextPid = 1 THEN {} ELSE {"app_data", "transcripts"}
    /\ StIdle
    /\ logs = [id \in LogIds |-> IF id = ThB /\ nextPid = 2 THEN <<StoredB>> ELSE NoLog]
    /\ pendingW = {}
    /\ lcall = LogIdleCall
    /\ lout = NoLogOut
    /\ cmds = 0
    /\ supplied = [id \in LogIds |-> <<>>]
    /\ viaOne = logs
    /\ raced = FALSE

(* A further command may begin.                                            *)
RejectBudget == calls + cmds < MaxCalls

NextReject ==
    \/ RejectBudget /\ \E c \in Callers, w \in ids, kind \in PathKinds : StartValidate(c, w, kind)
    \/ RejectBudget /\ \E c \in Callers, w \in ids : StopValidate(c, w)
    \/ RejectBudget /\ \E c \in Callers : StopAll(c)
    \/ \E c \in Callers : CallerStep(c)
    \/ \E p \in Pids : \E l \in ChildLines(p) : ChildWriteLine(p, l)
    \/ \E p \in Pids : ChildExit(p)
    \/ \E p \in Pids : ReaderThread(p)
    \/ RejectBudget /\ \E e \in Events : AppendTranscriptEvent(e)
    \/ \E w \in pendingW : BlockingWrite(w)
    \/ RejectBudget /\ \E id \in LogIds \cup {BadId} : ReadTranscript(id)
    \/ RejectBudget /\ \E id \in LogIds \cup {BadId} : DeleteTranscript(id)

SpecReject == InitReject /\ [][NextReject]_vars

-----------------------------------------------------------------------------
(* The registry while a start is in flight: caller c1 has passed the probe *)
(* of start_workspace_server for the workspace (lines 386-411, no entry    *)
(* found, lock released) and is about to spawn; it is the first command of *)
(* the run, and MaxCalls - 1 further commands may begin.                   *)

InitRace ==
    /\ unix = TRUE
    /\ ids = {W1, BadId}
    /\ servers = NoServers
    /\ serversLock = None
    /\ proc = [p \in Pids |-> NoProc]
    /\ stdout = [p \in Pids |-> NoLine]
    /\ reader = [p \in Pids |-> "none"]
    /\ chan = [p \in Pids |-> NoChan]
    /\ nextPid = 1
    /\ calls = 1
    /\ call = [c \in Callers |->
                 IF c = "c1"
                 THEN [IdleCall EXCEPT !.pc = "start_spawn", !.op = "start", !.ws = W1]
                 ELSE IdleCall]
    /\ ret = [c \in Callers |-> NoRet]
    /\ dirs = {}
    /\ StIdle
    /\ LogIdle

SpecRace == InitRace /\ [][Next]_vars

-----------------------------------------------------------------------------
(* Claims about the registry and the handshake.                            *)

(* The step in which caller c leaves position pc.                          *)
Leaves(c, pc) == call[c].pc = pc /\ call'[c].pc # pc
Registered(p) == \E w \in DOMAIN servers : servers[w].child = p

(* C1: when start_workspace_server returns the startup-timeout error, the  *)
(* child it spawned is no longer running and is not in the registry.       *)
C1_TimeoutStopsChild ==
    [][\A c \in Callers :
         (Leaves(c, "start_wait") /\ ret'[c] = Err("start", "ServerTimeout"))
            => /\ proc'[call[c].child].st # "running"
               /\ \A w \in DOMAIN servers' : servers'[w].child # call[c].child]_vars

(* C2: when the first line is received but does not parse as the           *)
(* handshake message, start_workspace_server returns the parse error and   *)
(* the child it spawned has been terminated: it is not left running.       *)
C2_ParseErrorStopsChild ==
    [][\A c \in Callers :
         (Leaves(c, "start_wait") /\ chan[call[c].child].st = "full"
            /\ ~ParseListening(ReadLine(call[c].child)).ok)
            => /\ ret'[c] = Err("start", "HandshakeParse")
               /\ proc'[call[c].child].st # "running"]_vars

(* C3: the call that inserts a handle returns the URL it stored, and every *)
(* later call that finds that entry with its process alive returns the     *)
(* stored URL again, spawns nothing and leaves registry and processes as   *)
(* they are: one spawn in total.                                           *)
C3_SecondCallCached ==
    [][\A c \in Callers :
         LET w == call[c].ws IN
         /\ Leaves(c, "start_insert")
               => /\ ret'[c] = Ok("start", servers'[w].url)
                  /\ servers'[w].child = call[c].child
         /\ (Leaves(c, "start_check") /\ w \in DOMAIN servers
               /\ Running(servers[w].child))
               => /\ ret'[c] = Ok("start", servers[w].url)
                  /\ call'[c].pc = "idle"
                  /\ nextPid' = nextPid
                  /\ servers' = servers
                  /\ proc' = proc]_vars

C3_Witness ==
    /\ \A c \in Callers : call[c].pc = "idle" /\ ret[c] = Ok("start", Url(PortOf(1)))
    /\ nextPid = 2
    /\ Running(1)

(* C4: a call that finds the registered process exited removes the stale   *)
(* entry in its locked section and goes on to spawn; the child it then     *)
(* spawns is a new process, and when that child's handshake parses the     *)
(* call registers the new handle and returns the new child's URL.          *)
C4_RestartAfterExit ==
    [][\A c \in Callers :
         LET w == call[c].ws IN
         /\ (Leaves(c, "start_check") /\ w \in DOMAIN servers
               /\ ~Running(servers[w].child) /\ ret'[c] # Err("start", "TryWaitFailed"))
               => /\ w \notin DOMAIN servers'
                  /\ call'[c].pc = "start_spawn"
                  /\ call'[c].stale
                  /\ serversLock' = None
         /\ (Leaves(c, "start_spawn") /\ call[c].stale /\ call'[c].pc = "start_wait")
               => /\ call'[c].child = nextPid
                  /\ proc[nextPid].st = "unborn"
                  /\ proc'[nextPid].st = "running"
                  /\ ~Registered(nextPid)
         /\ (Leaves(c, "start_insert") /\ call[c].stale)
               => /\ servers'[w] = ServerHandle(call[c].child,
                                                stdout[call[c].child].members["url"].s)
                  /\ ret'[c] = Ok("start", stdout[call[c].child].members["url"].s)]_vars

C4_Witness ==
    /\ proc[1].st = "reaped" /\ proc[1].ws = W1 /\ chan[1].st = "taken"
    /\ ParseListening(stdout[1]).ok
    /\ calls = 2 /\ nextPid = 3
    /\ W1 \in DOMAIN servers /\ servers[W1] = ServerHandle(2, Url(PortOf(2)))
    /\ \E c \in Callers : call[c].pc = "idle" /\ ret[c] = Ok("start", Url(PortOf(2)))

(* C5: every handle in the registry belongs to a child spawned for that    *)
(* workspace whose first line was received over the channel and parsed,    *)
(* and the URL in the handle is the URL of that line.                      *)
C5_HandshakeBeforeVisible ==
    \A w \in DOMAIN servers :
        LET p == servers[w].child IN
        /\ p \in Pids
        /\ proc[p].st # "unborn"
        /\ proc[p].ws = w
        /\ chan[p].st = "taken"
        /\ stdout[p].kind = "json"
        /\ "url" \in DOMAIN stdout[p].members
        /\ servers[w].url = stdout[p].members["url"].s

C5_Witness == \E w \in DOMAIN servers : Running(servers[w].child)

(* C6: a stop of a workspace that has no entry, and a stop_all of an empty *)
(* registry, return Ok and change neither the registry nor any process,    *)
(* however the calls of the two callers interleave.                        *)
C6_StopIdempotent ==
    [][\A c \in Callers :
         /\ (Leaves(c, "stop_lock") /\ call[c].ws \notin DOMAIN servers)
               => /\ ret'[c] = Ok("stop", NoUrl)
                  /\ call'[c].pc = "idle"
                  /\ servers' = servers /\ proc' = proc /\ serversLock' = serversLock
         /\ (StopAll(c) /\ DOMAIN servers = {})
               => /\ ret'[c] = Ok("stop_all", NoUrl)
                  /\ call'[c].pc = "idle"
                  /\ servers' = servers /\ proc' = proc /\ serversLock' = serversLock]_vars

C6_Witness ==
    /\ \A c \in Callers : call[c].pc = "idle" /\ ret[c] = Ok("stop", NoUrl)
    /\ calls = 3 /\ nextPid = 2 /\ proc[1].st = "reaped"
    /\ DOMAIN servers = {}

(* The state of the graceful_kill call that Killer is running.             *)
GkPast(pcs) == call[Killer].pc \in pcs
GkReturned == call[Killer].pc = "idle"

(* C7 as stated: graceful_kill always returns; it has sent the cooperative *)
(* termination request before it polls, kills or returns; it polls at most *)
(* PollLimit times; a return without escalation is an early return after a *)
(* poll that found the child exited; and when it returns the child is not  *)
(* running.                                                                *)
C7_Original_SendsTermAlways ==
    /\ [](/\ call[Killer].polls <= PollLimit
          /\ GkPast({"gk_poll", "gk_kill", "gk_done"}) => call[Killer].termSent
          /\ (GkPast({"gk_done"}) /\ ~call[Killer].escalated) => call[Killer].polls >= 1
          /\ GkPast({"gk_done"}) => ~Running(call[Killer].target)
          /\ GkReturned => ~Running(1))
    /\ <>GkReturned

(* C7 amended: graceful_kill always returns and when it returns the child  *)
(* is not running.  On a Unix build it has sent SIGTERM before it polls,   *)
(* polls at most PollLimit times, returns early only after a poll that     *)
(* found the child exited, and escalates to kill-and-wait only after at    *)
(* least one poll.  On any other build it neither signals nor polls: it    *)
(* goes straight to kill-and-wait.  After the escalation the child is      *)
(* reaped.                                                                 *)
C7_TerminateReturns ==
    /\ [](/\ call[Killer].polls <= PollLimit
          /\ unix => (GkPast({"gk_poll", "gk_kill", "gk_done"}) => call[Killer].termSent)
          /\ unix => (GkPast({"gk_kill", "gk_done"}) => call[Killer].polls >= 1)
          /\ ~unix => (call[Killer].polls = 0 /\ ~call[Killer].termSent)
          /\ ~unix => (GkPast({"gk_done"}) => call[Killer].escalated)
          /\ (GkPast({"gk_done"}) /\ ~call[Killer].escalated) => proc[call[Killer].target].st = "reaped"
          /\ call[Killer].escalated => proc[call[Killer].target].st = "reaped"
          /\ GkPast({"gk_done"}) => ~Running(call[Killer].target)
          /\ GkReturned => (~Running(1) /\ serversLock = None /\ ret[Killer] = Ok("stop", NoUrl)))
    /\ <>GkReturned

(* The child never exited on its own: every poll found it alive, and the   *)
(* forced kill ended it.                                                   *)
C7_Witness ==
    /\ unix
    /\ call[Killer].pc = "gk_done"
    /\ call[Killer].termSent
    /\ call[Killer].polls = PollLimit
    /\ call[Killer].escalated
    /\ proc[1] = [st |-> "reaped", ws |-> W1, term |-> TRUE]

-----------------------------------------------------------------------------
(* Claims about the state file.                                            *)

(* A load_state that returned a document read from the state file.         *)
LoadedFile(t) == out[t].op = "load" /\ out[t].ok /\ out[t].seen # NoDoc

(* C8 as stated: for any document, of any version, load_state after        *)
(* save_state with no save in between returns a document equal to the one  *)
(* saved; the saved text always parses.                                    *)
C8_Original_RoundTripAnyVersion ==
    \A t \in Tasks :
        /\ LoadedFile(t) => out[t].doc = out[t].seen
        /\ ~(out[t].op = "load" /\ out[t].err = "Parse")

(* C8 amended: for any document whose version is not 0, load_state after   *)
(* save_state with no save in between returns a document equal to the one  *)
(* saved, empty collections included; a document saved with version 0 is   *)
(* returned with version 1 and is otherwise equal.  The saved text always  *)
(* parses.                                                                 *)
C8_RoundTrip ==
    \A t \in Tasks :
        /\ (LoadedFile(t) /\ out[t].seen.version # 0) => out[t].doc = out[t].seen
        /\ (LoadedFile(t) /\ out[t].seen.version = 0)
              => out[t].doc = [version |-> 1, workspaces |-> out[t].seen.workspaces,
                               threads |-> out[t].seen.threads]
        /\ ~(out[t].op = "load" /\ out[t].err = "Parse")

C8_Witness ==
    \E t, u \in Tasks :
        /\ out[u].op = "save" /\ out[u].ok
        /\ out[u].doc = [version |-> 2, workspaces |-> <<WorkspaceA>>, threads |-> <<>>]
        /\ LoadedFile(t)
        /\ out[t].seen = out[u].doc
        /\ out[t].doc = out[u].doc

(* C9: the state file is never partial: it always holds the whole text of  *)
(* the last committed document.  The read of the state file, the write of  *)
(* the temporary file and the rename are done holding the state lock, so   *)
(* the temporary file holds only the text of the one save_state that is    *)
(* writing it, and what a load_state has read is the whole text of a       *)
(* committed document.                                                     *)
C9_NoTornReadsNoInterleavedWrites ==
    /\ stateFile = FileOf(committed)
    /\ \A t \in Tasks :
          /\ task[t].pc \in {"load_read", "save_write", "save_more", "save_rename"}
                => stateLock = t
          /\ task[t].pc = "save_more" => tmpFile = FirstPiece(ToJson(task[t].doc))
          /\ task[t].pc = "save_rename" => tmpFile = ToJson(task[t].doc)
          /\ task[t].pc = "load_parse"
                => /\ task[t].seen \in Documents
                   /\ task[t].raw = ToJson(task[t].seen)

(* One task is in the middle of writing the temporary file while the other *)
(* waits for the lock to read a state file that holds something else.      *)
C9_Witness ==
    /\ task["t1"].pc = "save_more"
    /\ task["t2"].pc = "load_lock"
    /\ stateLock = "t1"
    /\ stateFile # NoFile
    /\ stateFile # ToJson(task["t1"].doc)
    /\ tmpFile # NoFile

(* A save_state that failed writing the temporary file or renaming it.     *)
SaveFails(t) == task[t].pc \in {"save_write", "save_more", "save_rename"} /\ SaveFailed(out'[t])

(* C10 as stated: a save_state that fails while writing the temporary file *)
(* or renaming it leaves the state file unchanged, and a later load_state  *)
(* returns the document of the last successful save.                       *)
C10_Original_LoadReturnsLastSave ==
    /\ [][\A t \in Tasks : SaveFails(t) => stateFile' = stateFile]_vars
    /\ [](\A t \in Tasks : (LoadedFile(t) /\ out[t].late) => out[t].doc = out[t].seen)

(* C10 amended: a save_state that fails while writing the temporary file   *)
(* or renaming it leaves the state file unchanged, still holding the text  *)
(* of the last successful save; a later load_state returns that document,  *)
(* with a version of 0 returned as 1.                                      *)
C10_FailedSaveKeepsCommitted ==
    /\ [][\A t \in Tasks : SaveFails(t) =>
             /\ stateFile' = stateFile
             /\ stateFile' = FileOf(committed')
             /\ committed' = committed]_vars
    /\ [](\A t \in Tasks : (LoadedFile(t) /\ out[t].late) =>
             out[t].doc = [out[t].seen EXCEPT
                             !.version = IF out[t].seen.version = 0 THEN 1 ELSE @])

(* A save_state failed in the rename, leaving its text in the temporary    *)
(* file, and the load_state that began after it returned the document that *)
(* was committed before.                                                   *)
C10_Witness ==
    /\ out["t1"] = OutErr("save", "Rename")
    /\ tmpFile # NoFile
    /\ tmpFile # stateFile
    /\ LoadedFile("t2")
    /\ out["t2"].late
    /\ out["t2"].seen = committed
    /\ out["t2"].doc = committed
    /\ committed.version = 2

(* C11: a load_state that finds no state file returns Ok with the document *)
(* of version 1 with no workspaces and no threads, without taking the lock *)
(* and without creating any file.                                          *)
C11_LoadMissingFileIsDefault ==
    [][\A t \in Tasks :
         (LoadProbe(t) /\ stateFile = NoFile)
            => /\ out'[t].op = "load"
               /\ out'[t].ok
               /\ out'[t].doc = [version |-> 1, workspaces |-> <<>>, threads |-> <<>>]
               /\ task'[t].pc = "idle"
               /\ stateFile' = NoFile
               /\ stateLock' = stateLock]_vars

C11_Witness ==
    /\ stateFile = NoFile
    /\ committed = NoDoc
    /\ \E t \in Tasks :
          /\ out[t].op = "load" /\ out[t].ok
          /\ out[t].doc.version = 1
          /\ out[t].doc.workspaces = <<>>
          /\ out[t].doc.threads = <<>>

-----------------------------------------------------------------------------
(* Claims about the transcripts.                                           *)

(* The file of thread id did not exist before the events in supplied[id]   *)
(* were accepted, and each of them came by append_transcript_event.        *)
FreshOneByOne(id) ==
    /\ supplied[id] # <<>>
    /\ Len(viaOne[id]) = Len(supplied[id])
    /\ \A i \in 1..Len(supplied[id]) : supplied[id][i].via = "one"

(* C12: after append_transcript_event of N events to a fresh thread, each  *)
(* call having returned Ok, a read_transcript of the thread that can read  *)
(* the file returns exactly those N events in append order, each with the  *)
(* ts, thread_id, direction and payload that were supplied.                *)
C12_AppendThenReadReturnsSupplied ==
    [][\A id \in LogIds :
         (ReadTranscript(id) /\ FreshOneByOne(id) /\ lout'.err # "Read")
            => lout' = LogOk("read", id,
                             [i \in 1..Len(supplied[id]) |-> supplied[id][i].evt])]_vars

(* No transcript command is in progress and no write is pending.           *)
LogQuiet == lcall.pc = "idle" /\ pendingW = {}

(* C13: once an append_transcript_batch has returned Ok and its writes are *)
(* done, every transcript file equals the file that append_transcript_event *)
(* of the batch's events, one by one in the order of the batch, would have *)
(* produced from the same starting content (no write having been issued    *)
(* for a file while another write for it was pending).                     *)
C13_BatchEqualsOneByOne ==
    (LogQuiet /\ ~raced /\ lout = LogOk("batch", <<>>, <<>>))
        => \A id \in LogIds : logs[id] = viaOne[id]

(* One batch of three events, two for thread ThA around one for ThB, added *)
(* to a ThB file that held a line already.                                 *)
C13_Witness ==
    /\ LogQuiet /\ ~raced /\ cmds = 1
    /\ lout = LogOk("batch", <<>>, <<>>)
    /\ logs[ThA] = <<EventLine(Event("d0", ThA, DirServer, Null)),
                     EventLine(Event("d1", ThA, DirClient, Num(1)))>>
    /\ logs[ThB] = <<StoredB, StoredB>>
    /\ supplied[ThA][1].evt.direction = <<" ", "S", "erver", " ">>

(* The batches that hold, at any position, an event with an invalid thread *)
(* id or with a direction that does not normalize to server or client.     *)
InvalidBatches ==
    {es \in Batches : \E i \in 1..Len(es) :
        \/ validate_safe_id(es[i].thread_id) # "Ok"
        \/ NormalizeDirection(es[i].direction) \notin {DirServer, DirClient}}

(* C14: an append_transcript_batch in which any event, at any position,    *)
(* has an invalid thread id or a direction that does not normalize to      *)
(* server or client returns an error, and writes nothing.  A batch call    *)
(* that returns an error from its validation creates or changes no file    *)
(* or directory and issues no write; a batch call that goes on to write,   *)
(* or returns Ok, was not given any such batch.                            *)
C14_BatchAllOrNothing ==
    [][/\ (lcall.pc = "idle" /\ cmds' # cmds /\ lout'.op = "batch" /\ ~lout'.ok)
            => /\ lout'.err \in {"InvalidInput", "Direction"}
               /\ lcall'.pc = "idle"
               /\ logs' = logs
               /\ pendingW' = pendingW
               /\ dirs' = dirs
       /\ (/\ lcall.pc = "idle" /\ cmds' # cmds
           /\ (lcall'.pc = "batch_write" \/ lout' = LogOk("batch", <<>>, <<>>)))
            => \A es \in InvalidBatches : ~BatchBegin(es)]_vars

(* The first command was a batch that was rejected for a direction: the    *)
(* event before the bad one was valid, and nothing was written.            *)
C14_Witness ==
    /\ cmds = 1
    /\ lout = LogErr("batch", <<>>, "Direction", 0)
    /\ lcall.pc = "idle"
    /\ pendingW = {}
    /\ dirs = {}
    /\ \A id \in LogIds : ~Exists(logs[id])

(* The read_transcript step on the file of a thread, when the file exists  *)
(* and read_to_string returned its content.                                *)
ReadOf(id) ==
    /\ lcall.pc = "idle"
    /\ cmds' # cmds
    /\ lout'.op = "read"
    /\ lout'.id = id
    /\ Exists(logs[id])
    /\ lout'.err # "Read"

(* Line i of the file is neither blank nor an event.                       *)
BadLine(file, i) == ~IsBlank(file[i]) /\ ~ParseEvent(file[i]).ok

(* C15 as stated: whenever the file holds a line that is not a valid       *)
(* event, the read fails with the index of a line that is not a valid      *)
(* event and returns no events.  Blank lines are not events, and a file    *)
(* whose only such lines are blank is read with success.                   *)
C15_Original_AnyInvalidLineFails ==
    [][\A id \in LogIds :
         (ReadOf(id) /\ \E i \in 1..Len(logs[id]) : ~ParseEvent(logs[id][i]).ok)
            => /\ ~lout'.ok
               /\ lout'.err = "Parse"
               /\ lout'.line \in 1..Len(logs[id])
               /\ ~ParseEvent(logs[id][lout'.line]).ok
               /\ lout'.events = <<>>]_vars

(* C15: whenever the file holds a line that is neither blank nor a valid   *)
(* event, the read fails with a parse error that carries the 1-based index *)
(* of the first such line, counting every line of the file, and returns    *)
(* no events, also not those of the lines before it.                       *)
C15_ParseErrorCarriesLine ==
    [][\A id \in LogIds :
         (ReadOf(id) /\ \E i \in 1..Len(logs[id]) : BadLine(logs[id], i))
            => /\ ~lout'.ok
               /\ lout'.err = "Parse"
               /\ lout'.events = <<>>
               /\ \E i \in 1..Len(logs[id]) :
                    /\ BadLine(logs[id], i)
                    /\ \A j \in 1..i - 1 : ~BadLine(logs[id], j)
                    /\ lout'.line = i]_vars

(* A file with an event, an empty line, a line that is not JSON and an     *)
(* event was read: the error names line 3 and no event came back.          *)
C15_Witness ==
    /\ cmds = 1
    /\ logs[ThB] = <<StoredB, EmptyLine, GarbageLine, StoredB>>
    /\ lout = LogErr("read", ThB, "Parse", 3)

-----------------------------------------------------------------------------
(* Claims about identifiers.                                               *)

(* The characters of [A-Za-z0-9_-].                                        *)
SafeAscii == AsciiAlnum \cup {"-", "_"}

(* C16 as stated: validation succeeds exactly for the identifiers of 1 to  *)
(* 256 characters, all of them in [A-Za-z0-9_-].                           *)
C16_Original_ExactlyAsciiSet ==
    lout.op = "validate"
       => (lout.ok <=> /\ Len(lout.id) \in 1..MaxIdLen
                       /\ \A i \in 1..Len(lout.id) : lout.id[i] \in SafeAscii)

(* C16: validation succeeds exactly for the identifiers that are not       *)
(* empty, take at most 256 bytes in UTF-8, and whose characters are all    *)
(* alphanumeric in Unicode, or a hyphen, or an underscore; every other     *)
(* identifier is rejected as invalid input.                                *)
C16_ExactlyUnicodeAlnumSet ==
    lout.op = "validate"
       => /\ lout.ok <=>
               /\ lout.id # <<>>
               /\ Len(lout.id) + Cardinality({i \in 1..Len(lout.id) : lout.id[i] \in NonAsciiAlnum})
                     <= MaxIdLen
               /\ \A i \in 1..Len(lout.id) : lout.id[i] \in SafeAscii \cup NonAsciiAlnum
          /\ ~lout.ok => lout.err = "InvalidInput"

(* An identifier of 256 one-byte characters was accepted.                  *)
C16_Witness ==
    /\ lout.op = "validate"
    /\ lout.ok
    /\ Len(lout.id) = MaxIdLen

-----------------------------------------------------------------------------
(* Claims about concurrent calls on the registry.                          *)

StopAllReturns(c) ==
    \/ StopAll(c) /\ DOMAIN servers = {}
    \/ call[c].pc = "kill" /\ call[c].op = "stop_all" /\ call'[c].pc = "idle"

(* C18: when stop_all returns and no start_workspace_server is in          *)
(* progress, no child whose handle was put in the registry (its start      *)
(* returned Ok with the child's own URL) is still running: a child whose   *)
(* handle was replaced by the insert of a concurrent start is stopped by   *)
(* the sweep as well.                                                      *)
C18_StopAllStopsOrphans ==
    [][\A c \in Callers :
         (StopAllReturns(c) /\ \A d \in Callers : call'[d].op # "start")
            => \A p \in Pids :
                 (\E d \in Callers : ret'[d] = Ok("start", Url(PortOf(p))))
                    => proc'[p].st # "running"]_vars

(* The positions at which a command waits for the registry lock (lines     *)
(* 386, 528, 552) and for the state-file lock (lines 576, 608).            *)
RegistryWaits == {"start_check", "start_insert", "stop_lock"}
StateWaits == {"load_lock", "save_lock"}

(* Some command waits for a lock.                                          *)
LockWaited ==
    \/ \E c \in Callers : call[c].pc \in RegistryWaits
    \/ \E t \in Tasks : task[t].pc \in StateWaits

(* C19: the thread that holds the registry lock is inside graceful_kill,   *)
(* and the task that holds the state-file lock is reading, writing or      *)
(* renaming: no holder of a lock is at a position that waits for a lock,   *)
(* so none holds one lock while waiting for another or takes a second one. *)
(* Whenever a command waits for a lock, a state follows in which no        *)
(* command waits for any lock: every wait ends with the lock acquired,     *)
(* when the threads that can take a step are scheduled.                    *)
C19_DeadlockFree ==
    /\ [](\A c \in Callers : serversLock = c => call[c].pc = "kill")
    /\ [](\A t \in Tasks :
            stateLock = t => task[t].pc \notin StateWaits \cup {"idle"})
    /\ LockWaited ~> ~LockWaited

(* Both locks are held, by a stop inside graceful_kill and by a task in    *)
(* the state file, while another command waits for the registry lock.      *)
C19_Witness ==
    /\ serversLock = "c1"
    /\ call["c2"].pc \in RegistryWaits
    /\ stateLock = "t1"

(* The spawn-and-handshake phase of start_workspace_server, lines 413-525. *)
Handshaking(c) == call[c].pc \in {"start_spawn", "start_wait"}

-----------------------------------------------------------------------------
(* Claims about the end of the handshake wait and about rejected calls.    *)

(* A start_workspace_server that has spawned its child has not returned.   *)
Starting == \E c \in Callers : call[c].pc \in {"start_wait", "start_insert"}

(* C21: whenever a start_workspace_server has spawned a child and has not  *)
(* returned, a state follows in which no such call is left: each of them   *)
(* has returned, with the URL or with an error, whatever the child does    *)
(* (nothing is assumed of the children: one may stay silent and alive for  *)
(* ever), when the threads that can take a step are scheduled.             *)
C21_StartReturns == Starting ~> ~Starting

(* A start returned the timeout error while its child runs and has         *)
(* written nothing.                                                        *)
C21_Witness ==
    \E c \in Callers :
      /\ call[c].pc = "idle"
      /\ ret[c] = Err("start", "ServerTimeout")
      /\ Running(2)
      /\ stdout[2] = NoLine

(* An identifier with a character that is not alphanumeric, a hyphen or an *)
(* underscore; a direction that is neither server nor client.              *)
UnsafeId(id) == \E i \in 1..Len(id) : id[i] \notin SafeAscii \cup NonAsciiAlnum
BadDirection(d) == NormalizeDirection(d) \notin {DirServer, DirClient}

(* Nothing of the registry, the processes or the file system changes.      *)
NoEffect ==
    /\ UNCHANGED <<servers, serversLock, proc, stdout, reader, chan, nextPid>>
    /\ UNCHANGED <<dirs, logs, pendingW>>
    /\ UNCHANGED <<stateFile, tmpFile>>

(* C22: start_workspace_server and stop_workspace_server with an invalid   *)
(* workspace id return InvalidInput, change no registry entry and spawn or *)
(* signal no process; append_transcript_event with an invalid thread id or *)
(* an invalid direction, and read_transcript and delete_transcript with an *)
(* invalid thread id, return the error and create, change or remove no     *)
(* file or directory and issue no write.                                   *)
C22_RejectedCallNoEffect ==
    [][/\ \A c \in Callers, w \in ids :
            (UnsafeId(w) /\ (StopValidate(c, w) \/ \E kind \in PathKinds : StartValidate(c, w, kind)))
               => /\ ~ret'[c].ok /\ ret'[c].err = "InvalidInput"
                  /\ call'[c].pc = "idle"
                  /\ NoEffect
       /\ \A e \in Events :
            ((UnsafeId(e.thread_id) \/ BadDirection(e.direction)) /\ AppendTranscriptEvent(e))
               => /\ ~lout'.ok /\ lout'.err \in {"InvalidInput", "Direction"}
                  /\ lcall'.pc = "idle"
                  /\ NoEffect
       /\ \A id \in LogIds \cup {BadId} :
            (UnsafeId(id) /\ (ReadTranscript(id) \/ DeleteTranscript(id)))
               => /\ ~lout'.ok /\ lout'.err = "InvalidInput"
                  /\ lcall'.pc = "idle"
                  /\ NoEffect]_vars

(* With a server registered, its child running and a transcript stored, an *)
(* append with a bad direction and a stop with a bad id were rejected.     *)
C22_Witness ==
    /\ lout = LogErr("append", ThA, "Direction", 0)
    /\ \E c \in Callers : call[c].pc = "idle" /\ ret[c] = Err("stop", "InvalidInput")
    /\ calls + cmds = 2
    /\ DOMAIN servers = {W1} /\ Running(1)
    /\ logs[ThB] = <<StoredB>> /\ logs[ThA] = NoLog

-----------------------------------------------------------------------------
(* Claims about the content of a transcript over time.                     *)

IsPrefix(a, b) == Len(a) <= Len(b) /\ SubSeq(b, 1, Len(a)) = a

(* C23: with no delete_transcript of the thread, the content of its file   *)
(* before a step is a prefix of its content after the step; and once no    *)
(* command is in progress and no write is pending, the file of a thread    *)
(* whose events all came by append_transcript_event equals the lines it    *)
(* had at the start followed by the lines of those events, in the order of *)
(* the calls, each with its direction normalized.                          *)
C23_AppendOnlyInOrder ==
    [][\A id \in LogIds :
         /\ (Exists(logs[id]) /\ ~DeleteTranscript(id))
               => Exists(logs'[id]) /\ IsPrefix(logs[id], logs'[id])
         /\ (/\ pendingW' = {} /\ lcall'.pc = "idle"
             /\ supplied'[id] # <<>>
             /\ \A i \in 1..Len(supplied'[id]) : supplied'[id][i].via = "one")
               => logs'[id] = viaOne'[id]]_vars

-----------------------------------------------------------------------------
(* Claims about stop_workspace_server.                                     *)

(* Caller c runs a stop_workspace_server that found a handle and is inside *)
(* graceful_kill, the lock held.                                           *)
Stopping(c) == call[c].pc = "kill" /\ call[c].op = "stop"

(* C24: a stop_workspace_server that finds a handle under the workspace    *)
(* removes that entry and no other; while it runs graceful_kill on the     *)
(* child of the handle no entry of the registry changes; and when it       *)
(* returns, it returns Ok, the registry has no entry for the workspace,    *)
(* the child has exited and been reaped, and the lock is free.             *)
C24_StopRemovesAndKills ==
    [][\A c \in Callers :
         /\ (call[c].pc = "stop_lock" /\ call'[c].pc = "kill")
               => /\ DOMAIN servers' = DOMAIN servers \ {call[c].ws}
                  /\ \A w \in DOMAIN servers' : servers'[w] = servers[w]
                  /\ call'[c].pending = {servers[call[c].ws].child}
         /\ Stopping(c) => servers' = servers
         /\ (Stopping(c) /\ call'[c].pc = "idle")
               => /\ ret'[c] = Ok("stop", NoUrl)
                  /\ call[c].ws \notin DOMAIN servers'
                  /\ \A p \in call[c].pending : proc'[p].st = "reaped"
                  /\ serversLock' = None]_vars

(* Both workspaces had a server; the stop of w1 returned: its child was    *)
(* sent SIGTERM and is gone, and w2 is registered with its child running.  *)
C24_Witness ==
    /\ \E c \in Callers : call[c].pc = "idle" /\ ret[c] = Ok("stop", NoUrl)
    /\ \E p \in Pids : proc[p].ws = W1 /\ proc[p].st = "reaped" /\ proc[p].term
    /\ DOMAIN servers = {W2}
    /\ Running(servers[W2].child)
    /\ serversLock = None

-----------------------------------------------------------------------------
(* Claims about the one-shot channel of a spawn attempt.                   *)

(* The handle of child p is put in the registry by this step.              *)
Inserted(p) ==
    /\ \E w \in DOMAIN servers' : servers'[w].child = p
    /\ ~Registered(p)

(* C25: a line the reader thread sends after the receiver was dropped (the *)
(* wait elapsed and the call returned) is lost: no call holds the child    *)
(* any more, and the child is never in the registry.  A channel gets a     *)
(* value at most once, from empty, and a value taken or a closed channel   *)
(* stays as it is.  A handle is inserted only by the call that spawned the *)
(* child, which received that child's value and returns with the insert;   *)
(* a call gets a child only by spawning a fresh one, so each spawn attempt *)
(* is inserted at most once.                                               *)
C25_LateLineDiscarded ==
    [][\A p \in Pids :
         /\ (chan'[p].st = "lost" /\ chan[p].st # "lost")
               => /\ chan[p].st = "empty" /\ ~chan[p].rx
                  /\ \A c \in Callers : call[c].child # p
         /\ chan[p].st = "lost"
               => /\ chan'[p].st = "lost"
                  /\ ~Registered(p)
                  /\ \A w \in DOMAIN servers' : servers'[w].child # p
         /\ (chan'[p].st = "full" /\ chan[p].st # "full") => chan[p].st = "empty"
         /\ chan[p].st \in {"taken", "closed"} => chan'[p].st = chan[p].st
         /\ Inserted(p)
               => /\ chan[p].st = "taken"
                  /\ \E c \in Callers :
                       /\ call[c].child = p /\ call[c].pc = "start_insert"
                       /\ call'[c].pc = "idle"
                       /\ \A d \in Callers \ {c} : call[d].child # p
         /\ Registered(p) => p < nextPid
         /\ \A c \in Callers :
               (call'[c].child = p /\ call[c].child # p)
                  => p = nextPid /\ nextPid' = nextPid + 1]_vars

(* The child wrote its listening line, but the call had already returned   *)
(* the timeout error: the line was sent to a channel without receiver, and *)
(* the running child is in no registry entry.                              *)
C25_Witness ==
    \E p \in Pids :
      /\ chan[p].st = "lost"
      /\ stdout[p] = Listening(Url(PortOf(p)), PortOf(p))
      /\ Running(p)
      /\ ~Registered(p)
      /\ \E c \in Callers : ret[c] = Err("start", "ServerTimeout")

-----------------------------------------------------------------------------
(* Claims about a stop that meets a start in flight.                       *)

(* Caller c is inside start_workspace_server past the probe and before the *)
(* insert: its handle is not in the registry yet.                          *)
InStart(c) == Handshaking(c) \/ call[c].pc = "start_insert"

(* C26: stop_workspace_server and stop_all terminate only the children of  *)
(* handles they removed from the registry.  While another caller is inside *)
(* a start, past the probe and before the insert, a stop or stop_all step  *)
(* leaves that call and its child as they are, the child is never among    *)
(* the children a stop is terminating, and a stop that finds no entry of   *)
(* the workspace returns Ok.  The start can then insert: its insert step   *)
(* puts the handle of its own child into the registry, leaves the child    *)
(* alone and returns the URL.                                              *)
C26_StopSparesStartInFlight ==
    [][\A d \in Callers :
         /\ (StopLock(d) \/ StopAll(d))
               => /\ call'[d].pending \subseteq {servers[w].child : w \in DOMAIN servers}
                  /\ StopLock(d) /\ call[d].ws \notin DOMAIN servers
                        => ret'[d] = Ok("stop", NoUrl) /\ proc' = proc
         /\ \A c \in Callers \ {d} :
               InStart(c)
                 => /\ call[c].child \notin call[d].pending
                    /\ (StopLock(d) \/ StopAll(d) \/ Kill(d))
                          => /\ call'[c] = call[c]
                             /\ call[c].child # 0
                                   => /\ proc'[call[c].child] = proc[call[c].child]
                                      /\ chan'[call[c].child] = chan[call[c].child]
         /\ StartInsert(d)
               => /\ call[d].ws \in DOMAIN servers'
                  /\ servers'[call[d].ws] = ServerHandle(call[d].child, call[d].url)
                  /\ proc'[call[d].child] = proc[call[d].child]
                  /\ ret'[d] = Ok("start", call[d].url)]_vars

(* The only child ever spawned is the one of the start that was in flight  *)
(* from the beginning; the other caller's stop of the workspace has        *)
(* returned Ok, so it ran before the insert; the start has inserted its    *)
(* handle, and the child is running.                                       *)
C26_Witness ==
    /\ nextPid = 2
    /\ W1 \in DOMAIN servers
    /\ servers[W1] = ServerHandle(1, Url(PortOf(1)))
    /\ Running(1)
    /\ ret["c1"] = Ok("start", Url(PortOf(1)))
    /\ ret["c2"] = Ok("stop", NoUrl)

=============================================================================
